---- MODULE Spec2Model ----
(***************************************************************************)
(* A model of AioMK8DX.py: the cached client (package aiomk_api: Cache,    *)
(* caching_property, AioMKClient), the plain client (package aiomk8dx:     *)
(* HttpClient, AioMKClient with _fetch, _fetch_many, get_players) and the  *)
(* mappers both use.                                                        *)
(*                                                                         *)
(* Python values are records with a field cls, so that values of different *)
(* Python types compare unequal instead of being incomparable.             *)
(***************************************************************************)
EXTENDS FiniteSets, Integers, Sequences, TLC

VARIABLES
    Cache_data,   \* aiomk_api.cache.Cache.data, the dict of the class body
    storedBy,     \* history: for each key of Cache_data, the call whose put stored it
    calls,        \* history: the calls made on the cached clients, in start order
    callSites,    \* the call expressions of the program driving the cached clients
    fcall,        \* the call in progress or last made on the plain client (aiomk8dx)
    batch,        \* the get_players / _fetch_many call on the plain client
    scope,        \* the lifetime of one client: construction, use, close
    mapped        \* an object built by a mapper and the operations applied to it

vars == <<Cache_data, storedBy, calls, callSites, fcall, batch, scope, mapped>>

-----------------------------------------------------------------------------
(* Bounds *)

\* calls made on the cached clients in one behaviour
MaxCalls == 2
\* slots of one get_players batch
MaxBatch == 2

-----------------------------------------------------------------------------
(* Python values *)

None == [cls |-> "NoneType"]
\* the text of an int, a str or a bool is kept in the field v
PyInt(n) == [cls |-> "int", v |-> n]
PyStr(s) == [cls |-> "str", v |-> s]
PyBool(b) == [cls |-> "bool", v |-> b]
PyDatetime(t) == [cls |-> "datetime", v |-> t]
PyList(items) == [cls |-> "list", items |-> items]

\* bool(x) for the values above
Truthy(x) ==
    CASE x.cls = "NoneType" -> FALSE
      [] x.cls = "int" -> x.v # "0"
      [] x.cls = "str" -> x.v # ""
      [] x.cls = "bool" -> x.v = "True"
      [] x.cls = "list" -> x.items # <<>>
      [] OTHER -> TRUE

\* the text f"{x}" puts in a string
Format(x) == IF x.cls = "NoneType" THEN "None" ELSE x.v

\* an exception instance
Exc(name) == [cls |-> name]

\* what evaluating an expression or running a coroutine gives
Return(x) == [raised |-> FALSE, value |-> x]
Raise(name) == [raised |-> TRUE, value |-> Exc(name)]

\* a dict of query parameters is a set of <<key, value>> pairs with distinct keys
Item(key, x) == {<<key, x>>}
\* if x is not None: params[key] = x
IfNotNone(key, x) == IF x # None THEN {<<key, x>>} ELSE {}
Keys(params) == {p[1] : p \in params}

-----------------------------------------------------------------------------
(* Transport: HttpClient *)

StatusOK == 200

\* a transport that takes every status below 400 for a success
HttpClient_get_Below400(status, body) ==
    IF status >= 400 THEN None ELSE body

\* HttpClient.get once the session has answered with a status and a JSON body
HttpClient_get(status, body) ==
    IF status # StatusOK THEN None ELSE body

-----------------------------------------------------------------------------
(* Mappers.  A JSON object is a record with the set of its keys (field keys),*)
(* the entity it describes (field id) and, for the wrappers, the array it  *)
(* wraps.  A JSON array is a Python list of JSON objects.                   *)

Required(cls) ==
    CASE cls = "Player" -> {"name", "id", "mkcId", "isHidden"}
      [] cls = "PartialPlayer" -> {"name", "mkcId", "eventsPlayed"}
      [] cls = "PlayerDetails" ->
            {"name", "playerId", "mkcId", "isHidden", "season", "eventsPlayed",
             "winsLastTen", "lossesLastTen", "rank"}
      [] cls = "LeaderBoardPlayer" ->
            {"name", "id", "winsLastTen", "lossesLastTen", "eventsPlayed"}
      [] cls = "Table" ->
            {"id", "score", "createdOn", "numTeams", "url", "tier", "teams"}
      [] cls = "Bonus" ->
            {"id", "season", "awardedOn", "prevMmr", "newMmr", "amount",
             "deletedOn", "playerId", "playerName"}
      [] cls = "Penalty" ->
            {"id", "season", "awardedOn", "prevMmr", "newMmr", "amount",
             "deletedOn", "playerId", "playerName", "isStrike"}
      [] cls = "LeaderBoard" -> {"totalPlayers", "data"}

\* cls(data) for the flat entities: every data["key"] must be there
Construct(cls, data) ==
    IF data.cls # "dict" THEN Raise("TypeError")
    ELSE IF ~(Required(cls) \subseteq data.keys) THEN Raise("KeyError")
    ELSE Return([cls |-> cls, id |-> data.id])

\* [cls(x) for x in array]: the first x that fails raises
ConstructAll(cls, array) ==
    IF array.cls # "list" THEN Raise("TypeError")
    ELSE LET built == [i \in DOMAIN array.items |-> Construct(cls, array.items[i])]
             bad == {i \in DOMAIN built : built[i].raised}
         IN  IF bad # {}
             THEN built[CHOOSE i \in bad : \A j \in bad : i <= j]
             ELSE Return(PyList([i \in DOMAIN built |-> built[i].value]))

\* LeaderBoard(data)
LeaderBoard(data) ==
    IF data.cls # "dict" THEN Raise("TypeError")
    ELSE IF ~(Required("LeaderBoard") \subseteq data.keys) THEN Raise("KeyError")
    ELSE LET players == ConstructAll("LeaderBoardPlayer", data.data)
         IN  IF players.raised THEN players
             ELSE Return([cls |-> "LeaderBoard",
                          total_players |-> data.totalPlayers,
                          data |-> players.value.items])

-----------------------------------------------------------------------------
(* utils.Search *)

Search(mkc_id, discord_id, switch_fc) ==
    [cls |-> "Search", mkc_id |-> mkc_id, discord_id |-> discord_id,
     switch_fc |-> switch_fc]

\* Search.__bool__
Search_bool(s) == Truthy(s.mkc_id) \/ Truthy(s.discord_id) \/ Truthy(s.switch_fc)

\* a query that looks at the friend code first
Search_query_SwitchFirst(s) ==
    IF Truthy(s.switch_fc) THEN PyStr("switch=" \o Format(s.switch_fc))
    ELSE IF Truthy(s.mkc_id) THEN PyStr("mkc=" \o Format(s.mkc_id))
    ELSE PyStr("discord=" \o Format(s.discord_id))

\* Search.query, which is also Search.__str__
Search_query(s) ==
    IF Truthy(s.mkc_id) THEN PyStr("mkc=" \o Format(s.mkc_id))
    ELSE IF Truthy(s.discord_id) THEN PyStr("discord=" \o Format(s.discord_id))
    ELSE PyStr("switch=" \o Format(s.switch_fc))

\* `if search:` and str(search) for a str, a Search or None
SearchGiven(x) == IF x.cls = "Search" THEN Search_bool(x) ELSE Truthy(x)
SearchText(x) == IF x.cls = "Search" THEN Search_query(x) ELSE PyStr(Format(x))

-----------------------------------------------------------------------------
(* The methods of AioMKClient.  Each is cut at its one await: the part     *)
(* before it gives either `return None` or the request to send, the part   *)
(* after it turns what HttpClient.get returned into the method's result.   *)

Methods ==
    {"get_player", "get_player_details", "get_player_list", "get_leaderboard",
     "get_table", "get_tables", "get_table_unverified", "get_bonus",
     "get_bonuses", "get_penalty", "get_penalties"}

\* the parameters after self, in order
Signature(m) ==
    CASE m = "get_player" -> <<"id", "name", "mkc_id", "discord_id", "fc", "season">>
      [] m = "get_player_details" -> <<"id", "name", "season">>
      [] m = "get_player_list" -> <<"min_mmr", "max_mmr", "season">>
      [] m = "get_leaderboard" ->
            <<"season", "skip", "page_size", "search", "country", "min_mmr",
              "max_mmr", "min_events_played", "max_events_played">>
      [] m = "get_table" -> <<"table_id">>
      [] m = "get_tables" -> <<"after", "before", "season">>
      [] m = "get_table_unverified" -> <<"season">>
      [] m = "get_bonus" -> <<"id">>
      [] m = "get_bonuses" -> <<"name", "season">>
      [] m = "get_penalty" -> <<"id">>
      [] m = "get_penalties" ->
            <<"name", "is_strike", "after", "include_deleted", "season">>

Default(m, p) ==
    CASE m = "get_leaderboard" /\ p = "skip" -> PyInt("0")
      [] m = "get_leaderboard" /\ p = "page_size" -> PyInt("50")
      [] m = "get_penalties" /\ p = "include_deleted" -> PyBool("False")
      [] OTHER -> None

\* the value each parameter gets from *args, **kwargs and the defaults
Bind(m, args, kwargs) ==
    LET ParamNames == {Signature(m)[i] : i \in DOMAIN Signature(m)}
        Position(p) == CHOOSE i \in DOMAIN Signature(m) : Signature(m)[i] = p
        KwNames == {kwargs[i][1] : i \in DOMAIN kwargs}
    IN  [p \in ParamNames |->
            IF Position(p) <= Len(args) THEN args[Position(p)]
            ELSE IF p \in KwNames
                 THEN kwargs[CHOOSE i \in DOMAIN kwargs : kwargs[i][1] = p][2]
                 ELSE Default(m, p)]

ReturnNone == [short |-> TRUE, endpoint |-> "", cls |-> "", via |-> "", params |-> {}]
Request(endpoint, cls, via, params) ==
    [short |-> FALSE, endpoint |-> endpoint, cls |-> cls, via |-> via, params |-> params]

\* datetime.isoformat()
isoformat(d) == PyStr(d.v)

\* get_player that tests its arguments with `if id:` instead of `is not None`
get_player_Truthy(a) ==
    LET season == IfNotNone("season", a.season)
    IN  IF Truthy(a.id) THEN Request("player", "Player", "_fetch", Item("id", a.id) \cup season)
        ELSE IF Truthy(a.name)
             THEN Request("player", "Player", "_fetch", Item("name", a.name) \cup season)
        ELSE IF Truthy(a.mkc_id)
             THEN Request("player", "Player", "_fetch", Item("mkcId", a.mkc_id) \cup season)
        ELSE IF Truthy(a.discord_id)
             THEN Request("player", "Player", "_fetch",
                          Item("discordId", a.discord_id) \cup season)
        ELSE IF Truthy(a.fc)
             THEN Request("player", "Player", "_fetch", Item("fc", a.fc) \cup season)
        ELSE ReturnNone

get_player(a) ==
    LET season == IfNotNone("season", a.season)
    IN  IF a.id # None THEN Request("player", "Player", "_fetch", Item("id", a.id) \cup season)
        ELSE IF a.name # None
             THEN Request("player", "Player", "_fetch", Item("name", a.name) \cup season)
        ELSE IF a.mkc_id # None
             THEN Request("player", "Player", "_fetch", Item("mkcId", a.mkc_id) \cup season)
        ELSE IF a.discord_id # None
             THEN Request("player", "Player", "_fetch",
                          Item("discordId", a.discord_id) \cup season)
        ELSE IF a.fc # None
             THEN Request("player", "Player", "_fetch", Item("fc", a.fc) \cup season)
        ELSE ReturnNone

\* get_player_details that returns None only when no parameter at all is set
get_player_details_SeasonAlone(a) ==
    LET season == IfNotNone("season", a.season)
    IN  IF a.id # None
        THEN Request("player/details", "PlayerDetails", "_fetch", Item("id", a.id) \cup season)
        ELSE IF a.name # None
             THEN Request("player/details", "PlayerDetails", "_fetch",
                          Item("name", a.name) \cup season)
        ELSE IF season # {}
             THEN Request("player/details", "PlayerDetails", "_fetch", season)
        ELSE ReturnNone

get_player_details(a) ==
    LET season == IfNotNone("season", a.season)
    IN  IF a.id # None
        THEN Request("player/details", "PlayerDetails", "_fetch", Item("id", a.id) \cup season)
        ELSE IF a.name # None
             THEN Request("player/details", "PlayerDetails", "_fetch",
                          Item("name", a.name) \cup season)
        ELSE ReturnNone

get_player_list(a) ==
    Request("player/list", "PartialPlayer", "players",
            IfNotNone("minMmr", a.min_mmr) \cup IfNotNone("maxMmr", a.max_mmr)
                \cup IfNotNone("season", a.season))

\* a get_leaderboard that sends the search key whenever search is not None
get_leaderboard_SearchNotNone(a) ==
    Request("player/leaderboard", "LeaderBoard", "_fetch",
            Item("season", a.season) \cup Item("skip", a.skip)
                \cup Item("pageSize", a.page_size)
                \cup (IF a.search # None
                      THEN Item("search", SearchText(a.search)) ELSE {})
                \cup IfNotNone("country", a.country)
                \cup IfNotNone("minMmr", a.min_mmr)
                \cup IfNotNone("maxMmr", a.max_mmr)
                \cup IfNotNone("minEventsPlayed", a.min_events_played)
                \cup IfNotNone("maxEventsPlayed", a.max_events_played))

get_leaderboard(a) ==
    Request("player/leaderboard", "LeaderBoard", "_fetch",
            Item("season", a.season) \cup Item("skip", a.skip)
                \cup Item("pageSize", a.page_size)
                \cup (IF SearchGiven(a.search)
                      THEN Item("search", SearchText(a.search)) ELSE {})
                \cup IfNotNone("country", a.country)
                \cup IfNotNone("minMmr", a.min_mmr)
                \cup IfNotNone("maxMmr", a.max_mmr)
                \cup IfNotNone("minEventsPlayed", a.min_events_played)
                \cup IfNotNone("maxEventsPlayed", a.max_events_played))

get_table(a) == Request("table", "Table", "_fetch", Item("tableId", a.table_id))

get_tables(a) ==
    Request("table/list", "Table", "list",
            (IF a.after # None THEN Item("from", isoformat(a.after)) ELSE {})
                \cup (IF a.before # None THEN Item("to", isoformat(a.before)) ELSE {})
                \cup IfNotNone("season", a.season))

get_table_unverified(a) ==
    Request("table/unverified", "Table", "list", IfNotNone("season", a.season))

get_bonus(a) == Request("bonus", "Bonus", "_fetch", Item("id", a.id))

get_bonuses(a) ==
    Request("bonus/list", "Bonus", "list",
            Item("name", a.name) \cup IfNotNone("season", a.season))

get_penalty(a) == Request("penalty", "Penalty", "_fetch", Item("id", a.id))

\* pkg: aiomk_api sends include_deleted as it is, aiomk8dx sends str(include_deleted)
get_penalties(pkg, a) ==
    Request("penalty/list", "Penalty", "list",
            Item("name", a.name)
                \cup Item("includeDeleted",
                          IF pkg = "aiomk8dx" THEN PyStr(Format(a.include_deleted))
                          ELSE a.include_deleted)
                \cup IfNotNone("isStrike", a.is_strike)
                \cup (IF a.after # None THEN Item("from", isoformat(a.after)) ELSE {})
                \cup IfNotNone("season", a.season))

\* the body of method m up to its await
Before(pkg, m, a) ==
    CASE m = "get_player" -> get_player(a)
      [] m = "get_player_details" -> get_player_details(a)
      [] m = "get_player_list" -> get_player_list(a)
      [] m = "get_leaderboard" -> get_leaderboard(a)
      [] m = "get_table" -> get_table(a)
      [] m = "get_tables" -> get_tables(a)
      [] m = "get_table_unverified" -> get_table_unverified(a)
      [] m = "get_bonus" -> get_bonus(a)
      [] m = "get_bonuses" -> get_bonuses(a)
      [] m = "get_penalty" -> get_penalty(a)
      [] m = "get_penalties" -> get_penalties(pkg, a)

\* a _fetch that builds a Player whatever class it is given
_fetch_AlwaysPlayer(cls, data) ==
    IF data = None THEN Return(None)
    ELSE Construct("Player", data)

\* AioMKClient._fetch after `data := await self._http.get(...)`
_fetch(cls, data) ==
    IF data = None THEN Return(None)
    ELSE IF cls = "LeaderBoard" THEN LeaderBoard(data)
    ELSE Construct(cls, data)

\* a list method that hands the transport's None on
ListOf_NoneOnAbsence(cls, data) ==
    IF data = None THEN Return(None)
    ELSE ConstructAll(cls, data)

\* the list methods after the await: [] or [cls(x) for x in data]
ListOf(cls, data) ==
    IF data = None THEN Return(PyList(<<>>))
    ELSE ConstructAll(cls, data)

\* get_player_list after the await: [] or [PartialPlayer(x) for x in data["players"]]
PlayersOf(cls, data) ==
    IF data = None THEN Return(PyList(<<>>))
    ELSE IF data.cls # "dict" THEN Raise("TypeError")
    ELSE IF "players" \notin data.keys THEN Raise("KeyError")
    ELSE ConstructAll(cls, data.players)

\* the body of a method from its await on, given what HttpClient.get returned
After(req, data) ==
    CASE req.via = "_fetch" -> _fetch(req.cls, data)
      [] req.via = "list" -> ListOf(req.cls, data)
      [] req.via = "players" -> PlayersOf(req.cls, data)

-----------------------------------------------------------------------------
(* The server.  What it answers is not the client's to decide: any status, *)
(* and with status 200 any body of the endpoint's shape, also one that     *)
(* lacks a key the mapper reads.                                            *)

EntityIds == {"1", "2"}

Entity(cls, id) == [cls |-> "dict", keys |-> Required(cls), id |-> id]
\* the same with one required key missing
Drifted(cls, id) ==
    [cls |-> "dict", keys |-> Required(cls) \ {CHOOSE k \in Required(cls) : TRUE},
     id |-> id]

Arrays(cls) ==
    {PyList(<<>>), PyList(<<Entity(cls, "1")>>),
     PyList(<<Entity(cls, "1"), Entity(cls, "2")>>),
     PyList(<<Entity(cls, "2"), Drifted(cls, "1")>>)}

Bodies(req) ==
    CASE req.via = "list" -> Arrays(req.cls)
      [] req.via = "players" ->
            {[cls |-> "dict", keys |-> {"players"}, id |-> "0", players |-> a] :
                a \in Arrays(req.cls)}
      [] req.cls = "LeaderBoard" ->
            {[cls |-> "dict", keys |-> {"totalPlayers", "data"}, id |-> "0",
              totalPlayers |-> PyInt("50"), data |-> a] :
                a \in Arrays("LeaderBoardPlayer")}
      [] OTHER -> {Entity(req.cls, id) : id \in EntityIds} \cup {Drifted(req.cls, "1")}

Responses(req) ==
    LET Statuses == {200, 204, 404, 500}
        ErrorBody == [cls |-> "dict", keys |-> {"title", "status"}, id |-> "0"]
    IN  {[status |-> StatusOK, body |-> b] : b \in Bodies(req)}
            \cup {[status |-> st, body |-> ErrorBody] : st \in Statuses \ {StatusOK}}

-----------------------------------------------------------------------------
(* The cached client: aiomk_api.cache and the decorated methods of         *)
(* aiomk_api.client.AioMKClient.                                            *)

Clients == {"A", "B"}

\* client._cache.data.  Cache() sets nothing on the instance and Cache.put
\* assigns to an item of self.data, never to self.data, so that on every client
\* the attribute is looked up on the class: the one dict of the class body.
data_of(client) == Cache_data

\* a key that keeps the keyword arguments in the order they were written
KeyOf_OrderedKwargs(m, args, kwargs) ==
    <<args, kwargs, "AioMKClient." \o m>>

\* a key without the name of the method
KeyOf_NoQualname(m, args, kwargs) ==
    <<args, {kwargs[i] : i \in DOMAIN kwargs}, "">>

\* a key built from the bound arguments, however they were passed
KeyOf_BoundArguments(m, args, kwargs) ==
    <<<<>>, {<<q, Bind(m, args, kwargs)[q]>> : q \in DOMAIN Bind(m, args, kwargs)},
      "AioMKClient." \o m>>

\* key = (args, frozenset(kwargs.items()), coro.__qualname__)
KeyOf(m, args, kwargs) ==
    <<args, {kwargs[i] : i \in DOMAIN kwargs}, "AioMKClient." \o m>>

\* a lookup that takes a stored None or [] for a missing entry
Cached_Truthy(d, key) == key \in DOMAIN d /\ Truthy(d[key])

\* key in client._cache.data
Cached(d, key) == key \in DOMAIN d

\* Cache.put: self.data[key] = value
Cache_put(d, key, value) ==
    [k \in DOMAIN d \cup {key} |-> IF k = key THEN value ELSE d[k]]

Site(m, args, kwargs) == [method |-> m, args |-> args, kwargs |-> kwargs]

\* the argument lists the methods are called with
Sites ==
    <<Site("get_player", <<>>, <<>>),
      Site("get_player", <<>>, <<<<"season", PyInt("1")>>>>),
      Site("get_player", <<>>, <<<<"name", PyStr("A")>>, <<"season", PyInt("1")>>>>),
      Site("get_player", <<>>, <<<<"season", PyInt("1")>>, <<"name", PyStr("A")>>>>),
      Site("get_player", <<PyInt("1")>>, <<>>),
      Site("get_player", <<>>, <<<<"id", PyInt("1")>>>>),
      Site("get_player_details", <<>>, <<<<"name", PyStr("A")>>>>),
      Site("get_player_details", <<>>, <<>>),
      Site("get_player_list", <<>>, <<<<"min_mmr", PyInt("1")>>>>),
      Site("get_leaderboard", <<>>, <<<<"season", PyInt("1")>>>>),
      Site("get_table", <<PyInt("1")>>, <<>>),
      Site("get_tables", <<>>, <<<<"season", PyInt("1")>>>>),
      Site("get_table_unverified", <<>>, <<>>),
      Site("get_bonus", <<PyInt("1")>>, <<>>),
      Site("get_bonus", <<>>, <<<<"id", PyInt("1")>>>>),
      Site("get_bonuses", <<PyStr("A")>>, <<>>),
      Site("get_penalty", <<PyInt("1")>>, <<>>),
      Site("get_penalties", <<PyStr("A")>>,
           <<<<"season", PyInt("1")>>, <<"is_strike", PyBool("True")>>>>),
      Site("get_penalties", <<PyStr("A")>>,
           <<<<"is_strike", PyBool("True")>>, <<"season", PyInt("1")>>>>)>>

SiteIds == DOMAIN Sites

KwSet(site) == {site.kwargs[i] : i \in DOMAIN site.kwargs}

\* the programs: one call expression on client A, and a second on A or on B
Programs ==
    LET \* two argument lists worth calling in one program: the same method with
        \* the same arguments bound, or two methods with the same arguments written
        Related(s, t) ==
            \/ /\ s.method = t.method
               /\ Bind(s.method, s.args, s.kwargs) = Bind(t.method, t.args, t.kwargs)
            \/ /\ s.method # t.method
               /\ s.args = t.args
               /\ KwSet(s) = KwSet(t)
        \* a call expression of the driving program: a client and an argument list
        On(client, k) == [client |-> client, site |-> k]
    IN  {{On("A", x[1]), On(x[3], x[2])} :
            x \in {y \in SiteIds \X SiteIds \X Clients :
                        Related(Sites[y[1]], Sites[y[2]])}}

\* for each argument list, its cache key and its request (or its `return None`)
KeyAt == [k \in SiteIds |-> KeyOf(Sites[k].method, Sites[k].args, Sites[k].kwargs)]
ReqAt ==
    [k \in SiteIds |->
        Before("aiomk_api", Sites[k].method,
               Bind(Sites[k].method, Sites[k].args, Sites[k].kwargs))]

\* the number of starts and completions so far: the time of the next event
Now == Len(calls) + Cardinality({i \in DOMAIN calls : calls[i].state # "pending"})

\* a call in the history: from is the call whose put stored the entry a hit
\* returned; gets counts the GETs the call sent; t0 and t1 are the times it
\* started and completed
Call(e, hit, from, gets, state, out, t1) ==
    [client |-> e.client, site |-> e.site, hit |-> hit, from |-> from,
     gets |-> gets, state |-> state, out |-> out, t0 |-> Now + 1, t1 |-> t1]

\* wrapper, key found: return client._cache.data[key]
CallHit(e) ==
    /\ Len(calls) < MaxCalls
    /\ Cached(data_of(e.client), KeyAt[e.site])
    /\ calls' = Append(calls,
            Call(e, TRUE, storedBy[KeyAt[e.site]], 0, "returned",
                 Return(data_of(e.client)[KeyAt[e.site]]), Now + 2))
    /\ UNCHANGED <<Cache_data, storedBy, callSites, fcall, batch, scope, mapped>>

\* wrapper, key not found, and the method returns None before any await:
\* the result is put and returned in the same step
CallReturnNone(e) ==
    /\ Len(calls) < MaxCalls
    /\ ~Cached(data_of(e.client), KeyAt[e.site])
    /\ ReqAt[e.site].short
    /\ Cache_data' = Cache_put(data_of(e.client), KeyAt[e.site], None)
    /\ storedBy' = Cache_put(storedBy, KeyAt[e.site], Len(calls) + 1)
    /\ calls' = Append(calls, Call(e, FALSE, 0, 0, "returned", Return(None), Now + 2))
    /\ UNCHANGED <<callSites, fcall, batch, scope, mapped>>

\* wrapper, key not found: the method sends its GET and the call is suspended
CallSend(e) ==
    /\ Len(calls) < MaxCalls
    /\ ~Cached(data_of(e.client), KeyAt[e.site])
    /\ ~ReqAt[e.site].short
    /\ calls' = Append(calls, Call(e, FALSE, 0, 1, "pending", Return(None), 0))
    /\ UNCHANGED <<Cache_data, storedBy, callSites, fcall, batch, scope, mapped>>

\* the session answers call i: HttpClient.get returns, the method maps the data,
\* and wrapper puts and returns the result, or the mapper's exception passes through
Receive(i, resp) ==
    /\ calls[i].state = "pending"
    /\ LET c == calls[i]
           out == After(ReqAt[c.site], HttpClient_get(resp.status, resp.body))
       IN  /\ calls' = [calls EXCEPT ![i] =
                    [c EXCEPT !.state = IF out.raised THEN "raised" ELSE "returned",
                              !.out = out, !.t1 = Now + 1]]
           /\ IF out.raised
              THEN UNCHANGED <<Cache_data, storedBy>>
              ELSE /\ Cache_data' = Cache_put(data_of(c.client), KeyAt[c.site], out.value)
                   /\ storedBy' = Cache_put(storedBy, KeyAt[c.site], i)
    /\ UNCHANGED <<callSites, fcall, batch, scope, mapped>>

\* the session fails call i (no connection, a timeout): the exception passes
\* through HttpClient.get, the method and wrapper; nothing is put
ReceiveError(i) ==
    /\ calls[i].state = "pending"
    /\ calls' = [calls EXCEPT ![i] =
            [@ EXCEPT !.state = "raised", !.out = Raise("ClientError"), !.t1 = Now + 1]]
    /\ UNCHANGED <<Cache_data, storedBy, callSites, fcall, batch, scope, mapped>>

Idle == [state |-> "idle"]

\* the calls suspended in their GET
Pending == {i \in DOMAIN calls : calls[i].state = "pending"}

InitCache ==
    /\ Cache_data = <<>>
    /\ storedBy = <<>>
    /\ calls = <<>>
    /\ callSites \in Programs
    /\ fcall = Idle
    /\ batch = Idle
    /\ scope = Idle
    /\ mapped = Idle

NextCache ==
    \/ \E e \in callSites : CallHit(e)
    \/ \E e \in callSites : CallReturnNone(e)
    \/ \E e \in callSites : CallSend(e)
    \/ \E i \in Pending : \E resp \in Responses(ReqAt[calls[i].site]) :
            Receive(i, resp)
    \/ \E i \in Pending : ReceiveError(i)

SpecCache == InitCache /\ [][NextCache]_vars

-----------------------------------------------------------------------------
(* The plain client: aiomk8dx.client.AioMKClient, whose methods are not     *)
(* decorated.  One call at a time is followed from its arguments to its     *)
(* result.                                                                  *)

\* the values an argument is given: None, a falsy value and a truthy one
SeasonArgs == {None, PyInt("1")}

\* the bound arguments each method is called with
ArgsOf(m) ==
    LET IntArgs == {None, PyInt("0"), PyInt("1")}
        StrArgs == {None, PyStr(""), PyStr("A")}
        DateArgs == {None, PyDatetime("2023-01-01T00:00:00")}
        SearchArgs ==
            {None, PyStr(""), PyStr("switch=1"), Search(None, None, None),
             Search(PyInt("1"), None, PyStr("F")), Search(None, PyInt("2"), PyStr("F")),
             Search(None, None, PyStr("F"))}
    IN
    CASE m = "get_player" ->
            [id : IntArgs, name : StrArgs, mkc_id : IntArgs, discord_id : IntArgs,
             fc : StrArgs, season : SeasonArgs]
      [] m = "get_player_details" -> [id : IntArgs, name : StrArgs, season : SeasonArgs]
      [] m = "get_player_list" ->
            [min_mmr : SeasonArgs, max_mmr : SeasonArgs, season : SeasonArgs]
      [] m = "get_leaderboard" ->
            [season : {PyInt("1")}, skip : {PyInt("0")}, page_size : {PyInt("50")},
             search : SearchArgs, country : {None, PyStr("JP")},
             min_mmr : SeasonArgs, max_mmr : SeasonArgs,
             min_events_played : SeasonArgs, max_events_played : SeasonArgs]
      [] m = "get_table" -> [table_id : {PyInt("0"), PyInt("1")}]
      [] m = "get_tables" -> [after : DateArgs, before : DateArgs, season : SeasonArgs]
      [] m = "get_table_unverified" -> [season : SeasonArgs]
      [] m \in {"get_bonus", "get_penalty"} -> [id : {PyInt("0"), PyInt("1")}]
      [] m = "get_bonuses" -> [name : {PyStr("A")}, season : SeasonArgs]
      [] m = "get_penalties" ->
            [name : {PyStr("A")}, is_strike : {None, PyBool("True"), PyBool("False")},
             after : DateArgs, include_deleted : {PyBool("True"), PyBool("False")},
             season : SeasonArgs]

NoBody == [cls |-> "NoBody"]

FCall(m, a, req, gets, state, status, body, data, out) ==
    [method |-> m, a |-> a, req |-> req, gets |-> gets, state |-> state,
     status |-> status, body |-> body, data |-> data, out |-> out]

\* get_player or get_player_details without an identifying argument:
\* `return None` before anything is sent
FacadeReturnNone ==
    /\ fcall.state = "called"
    /\ fcall.req.short
    /\ fcall' = [fcall EXCEPT !.state = "returned"]
    /\ UNCHANGED <<Cache_data, storedBy, calls, callSites, batch, scope, mapped>>

\* the method builds its params and awaits HttpClient.get, which sends one GET
FacadeSend ==
    /\ fcall.state = "called"
    /\ ~fcall.req.short
    /\ fcall' = [fcall EXCEPT !.state = "pending", !.gets = 1]
    /\ UNCHANGED <<Cache_data, storedBy, calls, callSites, batch, scope, mapped>>

\* the session answers: HttpClient.get returns and the method maps the data
FacadeReceive(resp) ==
    /\ fcall.state = "pending"
    /\ LET data == HttpClient_get(resp.status, resp.body)
           out == After(fcall.req, data)
       IN  fcall' = [fcall EXCEPT !.state = IF out.raised THEN "raised" ELSE "returned",
                                  !.status = resp.status, !.body = resp.body,
                                  !.data = data, !.out = out]
    /\ UNCHANGED <<Cache_data, storedBy, calls, callSites, batch, scope, mapped>>

\* the session fails: the exception passes through HttpClient.get and the method
FacadeError ==
    /\ fcall.state = "pending"
    /\ fcall' = [fcall EXCEPT !.state = "raised", !.out = Raise("ClientError")]
    /\ UNCHANGED <<Cache_data, storedBy, calls, callSites, batch, scope, mapped>>

\* a method of the plain client is called with arguments a
InitFacade ==
    /\ Cache_data = <<>>
    /\ storedBy = <<>>
    /\ calls = <<>>
    /\ callSites = {}
    /\ \E m \in Methods : \E a \in ArgsOf(m) :
            fcall = FCall(m, a, Before("aiomk8dx", m, a), 0, "called", 0, NoBody, None,
                          Return(None))
    /\ batch = Idle
    /\ scope = Idle
    /\ mapped = Idle

NextFacade ==
    \/ FacadeReturnNone
    \/ FacadeSend
    \/ \E resp \in (IF fcall.state = "pending" THEN Responses(fcall.req) ELSE {}) :
            FacadeReceive(resp)
    \/ FacadeError

SpecFacade == InitFacade /\ [][NextFacade]_vars

-----------------------------------------------------------------------------
(* The batch lookup of the plain client: get_players and _fetch_many.       *)

SeqsUpTo(S, n) == UNION {[1..k -> S] : k \in 0..n}

BatchInputs ==
    [ids : {<<>>, <<PyInt("1")>>},
     names : SeqsUpTo({PyStr("A"), PyStr("B")}, MaxBatch),
     mkc_ids : {<<>>, <<PyInt("7")>>},
     discord_ids : {<<>>, <<PyInt("9")>>},
     fcs : {<<>>, <<PyStr("F")>>},
     season : SeasonArgs,
     return_exceptions : BOOLEAN]

\* itertools.zip_longest: the shorter sequences are filled up with None
Filled(seq, i) == IF i <= Len(seq) THEN seq[i] ELSE None

\* a get_players that sends every identifier given for position i
PlayersParams_AllGiven(in, i) ==
    IfNotNone("id", Filled(in.ids, i))
        \cup IfNotNone("name", Filled(in.names, i))
        \cup IfNotNone("mkcId", Filled(in.mkc_ids, i))
        \cup IfNotNone("discordId", Filled(in.discord_ids, i))
        \cup IfNotNone("fc", Filled(in.fcs, i))
        \cup IfNotNone("season", in.season)

\* the params get_players builds for position i of its input sequences
PlayersParams(in, i) ==
    LET id == Filled(in.ids, i)
        name == Filled(in.names, i)
        mkc_id == Filled(in.mkc_ids, i)
        discord_id == Filled(in.discord_ids, i)
        fc == Filled(in.fcs, i)
    IN  (IF id # None THEN Item("id", id)
         ELSE IF name # None THEN Item("name", name)
         ELSE IF mkc_id # None THEN Item("mkcId", mkc_id)
         ELSE IF discord_id # None THEN Item("discordId", discord_id)
         ELSE IF fc # None THEN Item("fc", fc)
         ELSE {})
            \cup IfNotNone("season", in.season)

\* get_players up to its await: params_list
get_players(in) ==
    LET lens == {Len(in.ids), Len(in.names), Len(in.mkc_ids), Len(in.discord_ids),
                 Len(in.fcs)}
        n == CHOOSE x \in lens : \A y \in lens : y <= x
    IN  [i \in 1..n |-> PlayersParams(in, i)]

\* a gather that lists the results in the order the awaitables completed
gather_AsCompleted(legs, order) == [k \in DOMAIN order |-> legs[order[k]].result]

\* asyncio.gather once every awaitable is done: the results (with
\* return_exceptions, the exceptions too) in the order of the awaitables
gather(legs, order) == [i \in DOMAIN legs |-> legs[i].result]

\* _fetch_many after the await:
\* [cls(data) if data is not None else None for data in results]
MapResults(cls, results) ==
    LET built == [i \in DOMAIN results |->
                    IF results[i] # None THEN Construct(cls, results[i])
                    ELSE Return(None)]
        bad == {i \in DOMAIN built : built[i].raised}
    IN  IF bad # {}
        THEN built[CHOOSE i \in bad : \A j \in bad : i <= j]
        ELSE Return(PyList([i \in DOMAIN built |-> built[i].value]))

\* _fetch_many creates one HttpClient.get per params and awaits gather: every
\* leg sends its GET
BatchGather ==
    /\ batch.state = "called"
    /\ batch' = [batch EXCEPT
            !.state = "gathering",
            !.legs = [i \in DOMAIN batch.params_list |->
                        [state |-> "running", result |-> None]]]
    /\ UNCHANGED <<Cache_data, storedBy, calls, callSites, fcall, scope, mapped>>

\* a gather that raises nothing while legs are still running
Propagated_AtTheEnd(b, i) == b

\* with return_exceptions false, the first exception of a leg is raised in
\* the caller at once, while the other legs run on
Propagated(b, i) ==
    IF b.state = "gathering" /\ ~b.in.return_exceptions
    THEN [b EXCEPT !.state = "raised", !.out = Raise(b.legs[i].result.cls)]
    ELSE b

\* the session answers leg i
LegReceive(i, resp) ==
    /\ batch.state \in {"gathering", "raised"}
    /\ batch.legs[i].state = "running"
    /\ batch' = [batch EXCEPT
            !.legs[i] = [state |-> "done",
                         result |-> HttpClient_get(resp.status, resp.body)],
            !.order = Append(@, i)]
    /\ UNCHANGED <<Cache_data, storedBy, calls, callSites, fcall, scope, mapped>>

\* the session fails leg i
LegError(i) ==
    /\ batch.state \in {"gathering", "raised"}
    /\ batch.legs[i].state = "running"
    /\ batch' = Propagated(
            [batch EXCEPT !.legs[i] = [state |-> "failed", result |-> Exc("ClientError")],
                          !.order = Append(@, i)], i)
    /\ UNCHANGED <<Cache_data, storedBy, calls, callSites, fcall, scope, mapped>>

\* every leg is done: gather gives its list and _fetch_many maps it
Gathered ==
    /\ batch.state = "gathering"
    /\ \A i \in DOMAIN batch.legs : batch.legs[i].state # "running"
    /\ LET out == MapResults("Player", gather(batch.legs, batch.order))
       IN  batch' = [batch EXCEPT !.state = IF out.raised THEN "raised" ELSE "returned",
                                  !.out = out]
    /\ UNCHANGED <<Cache_data, storedBy, calls, callSites, fcall, scope, mapped>>

\* get_players is called on the plain client
InitBatch ==
    /\ Cache_data = <<>>
    /\ storedBy = <<>>
    /\ calls = <<>>
    /\ callSites = {}
    /\ fcall = Idle
    /\ \E in \in BatchInputs :
            batch = [state |-> "called", in |-> in, params_list |-> get_players(in),
                     legs |-> <<>>, order |-> <<>>, out |-> Return(None)]
    /\ scope = Idle
    /\ mapped = Idle

NextBatch ==
    \/ BatchGather
    \/ \E i \in (IF batch.state = "idle" THEN {} ELSE DOMAIN batch.legs) :
            \E resp \in Responses(Request("player", "Player", "_fetch", batch.params_list[i])) :
                LegReceive(i, resp)
    \/ \E i \in (IF batch.state = "idle" THEN {} ELSE DOMAIN batch.legs) : LegError(i)
    \/ Gathered

SpecBatch == InitBatch /\ [][NextBatch]_vars

-----------------------------------------------------------------------------
(* The lifetime of a client: construction, `async with`, close.            *)

\* closes the program itself asks for, and requests it makes, in one lifetime
MaxCloses == 2
MaxUses == 2

\* aiohttp.ClientSession as the client sees it: close_calls counts the
\* session.close() the client has awaited
ClientSession(origin) == [cls |-> "ClientSession", origin |-> origin, close_calls |-> 0]

\* HttpClient.__init__: self._session = session or ClientSession()
HttpClient_init(session) ==
    [cls |-> "HttpClient",
     session |-> IF Truthy(session) THEN session ELSE ClientSession("default")]

\* AioMKClient.__init__: self._http = http or HttpClient()
AioMKClient_init(http) == IF Truthy(http) THEN http ELSE HttpClient_init(None)

\* HttpClient.close: if self._session is not None: await self._session.close()
\* Nothing ever assigns None to _session.
HttpClient_close(http) ==
    IF http.session # None
    THEN [http EXCEPT !.session.close_calls = @ + 1]
    ELSE http

\* AioMKClient.close
AioMKClient_close(http) == HttpClient_close(http)

\* AioMKClient.__aexit__, whatever exception the body ended with
AioMKClient_aexit(http) == AioMKClient_close(http)

\* the client can be used: inside the with block, or any time without one
InUse == scope.state = "body" \/ (scope.state = "new" /\ ~scope.with)

\* async with client: __aenter__ returns self
ScopeEnter ==
    /\ scope.state = "new"
    /\ scope.with
    /\ scope' = [scope EXCEPT !.state = "body"]
    /\ UNCHANGED <<Cache_data, storedBy, calls, callSites, fcall, batch, mapped>>

\* the program makes a request
ScopeUse ==
    /\ InUse
    /\ scope.gets < MaxUses
    /\ scope' = [scope EXCEPT !.gets = @ + 1]
    /\ UNCHANGED <<Cache_data, storedBy, calls, callSites, fcall, batch, mapped>>

\* the program calls client.close()
ScopeClose ==
    /\ InUse
    /\ scope.closes < MaxCloses
    /\ scope' = [scope EXCEPT !.closes = @ + 1, !.http = AioMKClient_close(@)]
    /\ UNCHANGED <<Cache_data, storedBy, calls, callSites, fcall, batch, mapped>>

\* the with block ends, normally or with an exception: __aexit__ runs
ScopeExit(raised) ==
    /\ scope.state = "body"
    /\ scope' = [scope EXCEPT !.state = "exited", !.raised = raised,
                              !.http = AioMKClient_aexit(@)]
    /\ UNCHANGED <<Cache_data, storedBy, calls, callSites, fcall, batch, mapped>>

InitScope ==
    /\ Cache_data = <<>>
    /\ storedBy = <<>>
    /\ calls = <<>>
    /\ callSites = {}
    /\ fcall = Idle
    /\ batch = Idle
    /\ mapped = Idle
    \* the http argument a program builds its client with
    /\ \E http \in {None, HttpClient_init(None), HttpClient_init(ClientSession("injected"))} :
       \E with \in BOOLEAN :
            scope = [state |-> "new", with |-> with, given |-> http,
                     http |-> AioMKClient_init(http),
                     closes |-> 0, gets |-> 0, raised |-> FALSE]

NextScope ==
    \/ ScopeEnter
    \/ ScopeUse
    \/ ScopeClose
    \/ \E raised \in BOOLEAN : ScopeExit(raised)

SpecScope == InitScope /\ [][NextScope]_vars

-----------------------------------------------------------------------------
(* Search objects: construction, query, bool.                               *)

\* search.query is read
SearchQuery ==
    /\ mapped.state = "built"
    /\ mapped.cls = "Search"
    /\ mapped.query = None
    /\ mapped' = [mapped EXCEPT !.query = Search_query(mapped.obj)]
    /\ UNCHANGED <<Cache_data, storedBy, calls, callSites, fcall, batch, scope>>

\* bool(search) is taken
SearchBool ==
    /\ mapped.state = "built"
    /\ mapped.cls = "Search"
    /\ mapped.truth = None
    /\ mapped' = [mapped EXCEPT
            !.truth = PyBool(IF Search_bool(mapped.obj) THEN "True" ELSE "False")]
    /\ UNCHANGED <<Cache_data, storedBy, calls, callSites, fcall, batch, scope>>

InitSearch ==
    /\ Cache_data = <<>>
    /\ storedBy = <<>>
    /\ calls = <<>>
    /\ callSites = {}
    /\ fcall = Idle
    /\ batch = Idle
    /\ scope = Idle
    \* mkc_id and discord_id are Union[int, str, None], switch_fc Optional[str]
    /\ \E mkc_id, discord_id \in {None, PyInt("0"), PyInt("5"), PyStr(""), PyStr("7")} :
       \E switch_fc \in {None, PyStr(""), PyStr("F")} :
            mapped = [state |-> "built", cls |-> "Search",
                      obj |-> Search(mkc_id, discord_id, switch_fc),
                      query |-> None, truth |-> None]

NextSearch ==
    \/ SearchQuery
    \/ SearchBool

SpecSearch == InitSearch /\ [][NextSearch]_vars

-----------------------------------------------------------------------------
(* rank.Rank: from_nick.  A str is a sequence of characters here.           *)

\* length of a nickname
MaxNick == 4

\* the decimal digits of the nicknames followed here
Digits == {"0", "3"}

\* an int by its value
PyIntVal(n) == [cls |-> "int", n |-> n]

RECURSIVE lstrip(_)
lstrip(s) == IF s # <<>> /\ Head(s) = " " THEN lstrip(Tail(s)) ELSE s

RECURSIVE rstrip(_)
rstrip(s) ==
    IF s # <<>> /\ s[Len(s)] = " " THEN rstrip(SubSeq(s, 1, Len(s) - 1)) ELSE s

RECURSIVE DecimalValue(_)
DecimalValue(s) ==
    IF s = <<>> THEN 0
    ELSE 10 * DecimalValue(SubSeq(s, 1, Len(s) - 1)) + (IF s[Len(s)] = "3" THEN 3 ELSE 0)

\* int(s) for a str: surrounding whitespace is dropped, what is left must be
\* decimal digits
int(s) ==
    LET t == rstrip(lstrip(s))
    IN  IF t = <<>> \/ \E i \in DOMAIN t : t[i] \notin Digits
        THEN Raise("ValueError")
        ELSE Return(PyIntVal(DecimalValue(t)))

\* s.split(' ', maxsplit=1) for an s that holds a space
split_once(s) ==
    LET k == CHOOSE i \in DOMAIN s : s[i] = " " /\ \A j \in 1..(i - 1) : s[j] # " "
    IN  <<SubSeq(s, 1, k - 1), SubSeq(s, k + 1, Len(s))>>

\* Rank.__init__ / _update: data["division"], data.get("level"), data["name"]
Rank(data) ==
    [cls |-> "Rank", division |-> data["division"],
     level |-> IF "level" \in DOMAIN data THEN data["level"] ELSE None,
     name |-> data["name"]]

\* a from_nick that splits on the last space
Rank_from_nick_LastSpace(nick) ==
    IF \E i \in DOMAIN nick : nick[i] = " "
    THEN LET k == CHOOSE i \in DOMAIN nick :
                    nick[i] = " " /\ \A j \in (i + 1)..Len(nick) : nick[j] # " "
             level == int(SubSeq(nick, k + 1, Len(nick)))
         IN  IF level.raised THEN level
             ELSE Return(Rank([name |-> nick, division |-> SubSeq(nick, 1, k - 1),
                               level |-> level.value]))
    ELSE Return(Rank([name |-> nick, division |-> nick]))

\* Rank.from_nick
Rank_from_nick(nick) ==
    IF \E i \in DOMAIN nick : nick[i] = " "
    THEN LET parts == split_once(nick)
             level == int(parts[2])
         IN  IF level.raised THEN level
             ELSE Return(Rank([name |-> nick, division |-> parts[1],
                               level |-> level.value]))
    ELSE Return(Rank([name |-> nick, division |-> nick]))

\* Rank.from_nick(nick) is called
RankFromNick ==
    /\ mapped.state = "called"
    /\ mapped.cls = "Rank"
    /\ LET out == Rank_from_nick(mapped.nick)
       IN  mapped' = [mapped EXCEPT !.state = IF out.raised THEN "raised" ELSE "returned",
                                    !.out = out]
    /\ UNCHANGED <<Cache_data, storedBy, calls, callSites, fcall, batch, scope>>

InitRank ==
    /\ Cache_data = <<>>
    /\ storedBy = <<>>
    /\ calls = <<>>
    /\ callSites = {}
    /\ fcall = Idle
    /\ batch = Idle
    /\ scope = Idle
    /\ \E nick \in SeqsUpTo({"D", " "} \cup Digits, MaxNick) :
            mapped = [state |-> "called", cls |-> "Rank", nick |-> nick,
                      out |-> Return(None)]

NextRank == RankFromNick

SpecRank == InitRank /\ [][NextRank]_vars

-----------------------------------------------------------------------------
(* leaderboard.LeaderBoard of the plain client: built from a payload,      *)
(* indexed, sliced, searched.                                               *)

\* entries of a leaderboard page
MaxBoard == 3

Min(a, b) == IF a <= b THEN a ELSE b

\* the payloads of player/leaderboard: a page of players, and totalPlayers,
\* which the server sets to the count of all the players that match
BoardPayloads ==
    {[cls |-> "dict", keys |-> {"totalPlayers", "data"}, id |-> "0",
      totalPlayers |-> PyIntVal(total),
      data |-> PyList([i \in DOMAIN ids |-> Entity("LeaderBoardPlayer", ids[i])])] :
        ids \in SeqsUpTo(EntityIds, MaxBoard), total \in {0, 2, 50}}

\* list[start:stop]
list_slice(items, sl) ==
    LET lo == Min(sl.start, Len(items))
        hi == Min(sl.stop, Len(items))
    IN  IF hi <= lo THEN <<>> ELSE SubSeq(items, lo + 1, hi)

\* _DictBased.copy is a classmethod with the parameters (cls, self).  Called
\* on an instance, p.copy(), it gets cls from p and nothing for self:
\* TypeError.  Called with the instance as its argument it evaluates
\* cls._update(self.to_dict()), a call of _update on the class with one
\* argument, which lacks `data`: TypeError again.
DictBased_copy(args) == Raise("TypeError")

\* LeaderBoard._create(players): self.total_players = len(players);
\* self.data = [p.copy() for p in players]
LeaderBoard_create(players) ==
    LET copies == [i \in DOMAIN players |-> DictBased_copy(<<>>)]
        bad == {i \in DOMAIN copies : copies[i].raised}
    IN  IF bad # {}
        THEN copies[CHOOSE i \in bad : \A j \in bad : i <= j]
        ELSE Return([cls |-> "LeaderBoard", total_players |-> PyIntVal(Len(players)),
                     data |-> [i \in DOMAIN copies |-> copies[i].value]])

\* LeaderBoard.__getitem__
LeaderBoard_getitem(board, index) ==
    IF index.cls = "slice"
    THEN LeaderBoard_create(list_slice(board.data, index))
    ELSE IF index.n < Len(board.data) THEN Return(board.data[index.n + 1])
         ELSE Raise("IndexError")

\* LeaderBoard.find_all(predicate), the predicate given by the ids it accepts
LeaderBoard_find_all(board, accepted) ==
    LeaderBoard_create(SelectSeq(board.data, LAMBDA x : x.id \in accepted))

\* LeaderBoard(payload) is built
BoardBuild ==
    /\ mapped.state = "payload"
    /\ mapped.cls = "LeaderBoard"
    /\ LET out == LeaderBoard(mapped.payload)
       IN  mapped' = [mapped EXCEPT !.state = IF out.raised THEN "raised" ELSE "built",
                                    !.board = out.value]
    /\ UNCHANGED <<Cache_data, storedBy, calls, callSites, fcall, batch, scope>>

\* board[index]
BoardGetItem(index) ==
    /\ mapped.state = "built"
    /\ mapped.cls = "LeaderBoard"
    /\ mapped' = [mapped EXCEPT !.state = "done",
                                !.op = [name |-> "getitem", index |-> index],
                                !.out = LeaderBoard_getitem(mapped.board, index)]
    /\ UNCHANGED <<Cache_data, storedBy, calls, callSites, fcall, batch, scope>>

\* board.find_all(predicate)
BoardFindAll(accepted) ==
    /\ mapped.state = "built"
    /\ mapped.cls = "LeaderBoard"
    /\ mapped' = [mapped EXCEPT !.state = "done",
                                !.op = [name |-> "find_all", accepted |-> accepted],
                                !.out = LeaderBoard_find_all(mapped.board, accepted)]
    /\ UNCHANGED <<Cache_data, storedBy, calls, callSites, fcall, batch, scope>>

InitBoard ==
    /\ Cache_data = <<>>
    /\ storedBy = <<>>
    /\ calls = <<>>
    /\ callSites = {}
    /\ fcall = Idle
    /\ batch = Idle
    /\ scope = Idle
    /\ \E payload \in BoardPayloads :
            mapped = [state |-> "payload", cls |-> "LeaderBoard", payload |-> payload,
                      board |-> None, op |-> None, out |-> Return(None)]

NextBoard ==
    \/ BoardBuild
    \* slice(start, stop) and int indexes, none negative
    \/ \E index \in [cls : {"slice"}, start : 0..MaxBoard, stop : 0..(MaxBoard + 1)]
                        \cup {PyIntVal(i) : i \in 0..MaxBoard} : BoardGetItem(index)
    \/ \E accepted \in SUBSET EntityIds : BoardFindAll(accepted)

SpecBoard == InitBoard /\ [][NextBoard]_vars

-----------------------------------------------------------------------------
(* The mappers with to_dict: change.Bonus and Penalty, table.Score, Team    *)
(* and Table, rank.Rank.  A dict is a function from its keys, an object a  *)
(* function from its attribute names.                                       *)

\* data.get(key)
Get(data, key) == IF key \in DOMAIN data THEN data[key] ELSE None

\* dateutil.parser.isoparse: the two texts below are the same instant, and an
\* aware datetime prints its offset as +00:00
isoparse(s) ==
    PyDatetime(IF s.v = "2023-01-01T00:00:00Z" THEN "2023-01-01T00:00:00+00:00" ELSE s.v)

\* utils._to_camel: "".join(word.capitalize() for word in string.split("_"))
to_camel(string) ==
    LET \* string.split("_")
        split(attr) ==
            CASE attr = "id" -> <<"id">>
              [] attr = "season" -> <<"season">>
              [] attr = "awarded_on" -> <<"awarded", "on">>
              [] attr = "prev_mmr" -> <<"prev", "mmr">>
              [] attr = "new_mmr" -> <<"new", "mmr">>
              [] attr = "amount" -> <<"amount">>
              [] attr = "deleted_on" -> <<"deleted", "on">>
              [] attr = "player_id" -> <<"player", "id">>
              [] attr = "player_name" -> <<"player", "name">>
              [] attr = "is_strike" -> <<"is", "strike">>
              [] attr = "score" -> <<"score">>
              [] attr = "multiplier" -> <<"multiplier">>
              [] attr = "player_discord_id" -> <<"player", "discord", "id">>
              [] attr = "player_country_code" -> <<"player", "country", "code">>
              [] attr = "delta" -> <<"delta">>
              [] attr = "created_on" -> <<"created", "on">>
              [] attr = "verified_on" -> <<"verified", "on">>
              [] attr = "num_teams" -> <<"num", "teams">>
              [] attr = "url" -> <<"url">>
              [] attr = "tier" -> <<"tier">>
              [] attr = "teams" -> <<"teams">>
              [] attr = "table_message_id" -> <<"table", "message", "id">>
              [] attr = "update_message_id" -> <<"update", "message", "id">>
              [] attr = "author_id" -> <<"author", "id">>
        \* word.capitalize()
        capitalize(word) ==
            CASE word = "id" -> "Id"
              [] word = "season" -> "Season"
              [] word = "awarded" -> "Awarded"
              [] word = "on" -> "On"
              [] word = "prev" -> "Prev"
              [] word = "mmr" -> "Mmr"
              [] word = "new" -> "New"
              [] word = "amount" -> "Amount"
              [] word = "deleted" -> "Deleted"
              [] word = "player" -> "Player"
              [] word = "name" -> "Name"
              [] word = "is" -> "Is"
              [] word = "strike" -> "Strike"
              [] word = "score" -> "Score"
              [] word = "multiplier" -> "Multiplier"
              [] word = "discord" -> "Discord"
              [] word = "country" -> "Country"
              [] word = "code" -> "Code"
              [] word = "delta" -> "Delta"
              [] word = "created" -> "Created"
              [] word = "verified" -> "Verified"
              [] word = "num" -> "Num"
              [] word = "teams" -> "Teams"
              [] word = "url" -> "Url"
              [] word = "tier" -> "Tier"
              [] word = "table" -> "Table"
              [] word = "message" -> "Message"
              [] word = "update" -> "Update"
              [] word = "author" -> "Author"
        RECURSIVE join(_)
        join(ws) == IF ws = <<>> THEN "" ELSE Head(ws) \o join(Tail(ws))
        words == split(string)
    IN  join([i \in DOMAIN words |-> capitalize(words[i])])

\* the dict {key: value for ...} of a sequence of <<key, value>> pairs; of two
\* pairs with one key the later one stays
DictOf(pairs) ==
    [k \in {pairs[i][1] : i \in DOMAIN pairs} |->
        pairs[CHOOSE i \in DOMAIN pairs :
                    pairs[i][1] = k /\ \A j \in DOMAIN pairs : pairs[j][1] = k => j <= i][2]]

\* [f(x) for x in items], given the results f(x): the first x that fails raises
Comprehension(results) ==
    LET bad == {i \in DOMAIN results : results[i].raised}
    IN  IF bad # {} THEN results[CHOOSE i \in bad : \A j \in bad : i <= j]
        ELSE Return(PyList([i \in DOMAIN results |-> results[i].value]))

\* _ChangeBase.__init__ / _update, which is Bonus(data)
ChangeBase_update(cls, data) ==
    IF ~({"id", "season", "awardedOn", "prevMmr", "newMmr", "amount", "deletedOn",
          "playerId", "playerName"} \subseteq DOMAIN data)
    THEN Raise("KeyError")
    ELSE Return(
        [cls |-> cls, id |-> data["id"], season |-> data["season"],
         awarded_on |-> isoparse(data["awardedOn"]),
         prev_mmr |-> data["prevMmr"], new_mmr |-> data["newMmr"],
         amount |-> data["amount"],
         deleted_on |-> IF Truthy(data["deletedOn"]) THEN isoparse(data["deletedOn"])
                        ELSE None,
         player_id |-> data["playerId"], player_name |-> data["playerName"]])

\* _ChangeBase.to_dict, which is Bonus.to_dict
ChangeBase_to_dict(self) ==
    LET attrs == <<"id", "season", "awarded_on", "prev_mmr", "new_mmr", "amount",
                   "deleted_on", "player_id", "player_name">>
        value(attr) ==
            IF attr \in {"awarded_on", "deleted_on"}
            THEN IF self[attr] # None THEN isoformat(self[attr]) ELSE None
            ELSE self[attr]
    IN  DictOf([i \in DOMAIN attrs |-> <<to_camel(attrs[i]), value(attrs[i])>>])

Bonus(data) == ChangeBase_update("Bonus", data)

\* Penalty.__init__: super().__init__(data); self.is_strike = data["isStrike"]
Penalty(data) ==
    LET base == ChangeBase_update("Penalty", data)
    IN  IF base.raised THEN base
        ELSE IF "isStrike" \notin DOMAIN data THEN Raise("KeyError")
        ELSE Return([a \in DOMAIN base.value \cup {"is_strike"} |->
                        IF a = "is_strike" THEN data["isStrike"] ELSE base.value[a]])

\* Penalty.to_dict: data = super().to_dict(); data["isStrike"] = self.is_strike
Penalty_to_dict(self) ==
    LET data == ChangeBase_to_dict(self)
    IN  [k \in DOMAIN data \cup {"isStrike"} |->
            IF k = "isStrike" THEN self["is_strike"] ELSE data[k]]

\* Score.__init__ / _update
Score(data) ==
    IF ~({"score", "multiplier", "playerId", "playerName"} \subseteq DOMAIN data)
    THEN Raise("KeyError")
    ELSE Return(
        [cls |-> "Score", score |-> data["score"], multiplier |-> data["multiplier"],
         player_id |-> data["playerId"], player_name |-> data["playerName"],
         player_discord_id |-> Get(data, "playerDiscordId"),
         player_country_code |-> Get(data, "playerCountryCode"),
         delta |-> Get(data, "delta"), prev_mmr |-> Get(data, "prevMmr"),
         new_mmr |-> Get(data, "newMmr")])

\* Score.to_dict: {_to_camel(attr): getattr(self, attr) for attr in self.__slots__}
Score_to_dict(self) ==
    LET slots == <<"score", "multiplier", "player_id", "player_name", "player_discord_id",
                   "player_country_code", "delta", "prev_mmr", "new_mmr">>
    IN  DictOf([i \in DOMAIN slots |-> <<to_camel(slots[i]), self[slots[i]]>>])

\* Team.__init__ / _update
Team(data) ==
    IF ~({"rank", "scores"} \subseteq DOMAIN data) THEN Raise("KeyError")
    ELSE LET items == data["scores"].items
             scores == Comprehension([i \in DOMAIN items |-> Score(items[i])])
         IN  IF scores.raised THEN scores
             ELSE Return([cls |-> "Team", rank |-> data["rank"], scores |-> scores.value])

\* Team.to_dict
Team_to_dict(self) ==
    [rank |-> self.rank,
     scores |-> PyList([i \in DOMAIN self.scores.items |->
                            Score_to_dict(self.scores.items[i])])]

\* Table.__init__ / _update
Table(data) ==
    IF ~({"id", "score", "createdOn", "numTeams", "url", "tier", "teams"}
            \subseteq DOMAIN data)
    THEN Raise("KeyError")
    ELSE LET items == data["teams"].items
             teams == Comprehension([i \in DOMAIN items |-> Team(items[i])])
         IN  IF teams.raised THEN teams
             ELSE Return(
                [cls |-> "Table", id |-> data["id"], score |-> data["score"],
                 created_on |-> isoparse(data["createdOn"]),
                 verified_on |-> IF Truthy(Get(data, "verifiedOn"))
                                 THEN isoparse(data["verifiedOn"]) ELSE None,
                 deleted_on |-> IF Truthy(Get(data, "deletedOn"))
                                THEN isoparse(data["deletedOn"]) ELSE None,
                 num_teams |-> data["numTeams"], url |-> data["url"],
                 tier |-> data["tier"], teams |-> teams.value,
                 table_message_id |-> Get(data, "tableMessageId"),
                 update_message_id |-> Get(data, "updateMessageId"),
                 author_id |-> Get(data, "authorId")])

\* Table.to_dict
Table_to_dict(self) ==
    LET slots == <<"id", "score", "created_on", "verified_on", "deleted_on", "num_teams",
                   "url", "tier", "teams", "table_message_id", "update_message_id",
                   "author_id">>
        key(attr) == IF attr = "teams" THEN "teams" ELSE to_camel(attr)
        value(attr) ==
            IF attr \in {"created_on", "verified_on", "deleted_on"}
            THEN IF self[attr] # None THEN isoformat(self[attr]) ELSE None
            ELSE IF attr = "teams"
                 THEN PyList([i \in DOMAIN self.teams.items |->
                                Team_to_dict(self.teams.items[i])])
                 ELSE self[attr]
    IN  DictOf([i \in DOMAIN slots |-> <<key(slots[i]), value(slots[i])>>])

\* Rank.to_dict
Rank_to_dict(self) == [division |-> self.division, level |-> self.level, name |-> self.name]

\* LeaderBoard.to_dict: [x.to_dict() for x in self.data], and
\* player.LeaderBoardPlayer defines no to_dict and has no base that does
LeaderBoard_to_dict(self) ==
    LET players == Comprehension([i \in DOMAIN self.data |-> Raise("AttributeError")])
    IN  IF players.raised THEN players
        ELSE Return([cls |-> "dict", keys |-> {"totalPlayers", "data"}, id |-> "0",
                     totalPlayers |-> self.total_players, data |-> players.value])

\* cls(data) and obj.to_dict() for the classes that have to_dict
Mapper(cls, data) ==
    CASE cls = "Bonus" -> Bonus(data)
      [] cls = "Penalty" -> Penalty(data)
      [] cls = "Score" -> Score(data)
      [] cls = "Team" -> Team(data)
      [] cls = "Table" -> Table(data)
      [] cls = "Rank" -> Return(Rank(data))
      [] cls = "LeaderBoard" -> LeaderBoard(data)
to_dict(cls, self) ==
    CASE cls = "Bonus" -> Return(ChangeBase_to_dict(self))
      [] cls = "Penalty" -> Return(Penalty_to_dict(self))
      [] cls = "Score" -> Return(Score_to_dict(self))
      [] cls = "Team" -> Return(Team_to_dict(self))
      [] cls = "Table" -> Return(Table_to_dict(self))
      [] cls = "Rank" -> Return(Rank_to_dict(self))
      [] cls = "LeaderBoard" -> LeaderBoard_to_dict(self)

\* payloads as the server sends them
PayloadsOf(cls) ==
    LET times == {PyStr("2023-01-01T00:00:00Z"), PyStr("2023-01-01T00:00:00+00:00")}
        bonuses ==
            {[id |-> PyInt("1"), season |-> PyInt("8"), awardedOn |-> awardedOn,
              prevMmr |-> PyInt("1000"), newMmr |-> PyInt("1100"), amount |-> PyInt("100"),
              playerId |-> PyInt("7"), playerName |-> PyStr("A")] @@ deleted :
                awardedOn \in times,
                deleted \in {<<>>} \cup {[deletedOn |-> d] : d \in times \cup {None}}}
        scores ==
            {[score |-> PyInt("90"), multiplier |-> PyInt("1"), playerId |-> PyInt("7"),
              playerName |-> PyStr("A")] @@ optional :
                optional \in {<<>>, [delta |-> PyInt("20")],
                              [delta |-> None, prevMmr |-> PyInt("1000"),
                               playerCountryCode |-> PyStr("JP")]}}
        teams == {[rank |-> PyInt("1"), scores |-> PyList(ss)] : ss \in SeqsUpTo(scores, 1)}
    IN  CASE cls = "Bonus" -> bonuses
          [] cls = "Penalty" ->
                {bonus @@ [isStrike |-> isStrike] :
                    bonus \in bonuses, isStrike \in {PyBool("True"), PyBool("False")}}
          [] cls = "Score" -> scores
          [] cls = "Team" -> teams
          [] cls = "Table" ->
                {[id |-> PyInt("1"), score |-> PyInt("90"),
                  createdOn |-> PyStr("2023-01-01T00:00:00Z"), numTeams |-> PyInt("2"),
                  url |-> PyStr("u"), tier |-> PyStr("A"), teams |-> PyList(ts)]
                    @@ verified @@ deleted :
                    ts \in SeqsUpTo({t \in teams : t.scores.items = <<>>}, 1),
                    verified \in {<<>>, [verifiedOn |-> None],
                                  [verifiedOn |-> PyStr("2023-01-01T00:00:00+00:00")]},
                    deleted \in {<<>>, [deletedOn |-> None],
                                 [deletedOn |-> PyStr("2023-01-01T00:00:00+00:00")]}}
          [] cls = "Rank" ->
                {[name |-> <<"D">>, division |-> <<"D">>],
                 [name |-> <<"D", " ", "3">>, division |-> <<"D">>, level |-> PyIntVal(3)],
                 [name |-> <<"D">>, division |-> <<"D">>, level |-> None]}
          [] cls = "LeaderBoard" -> {b \in BoardPayloads : Len(b.data.items) <= 1}

DictClasses == {"Bonus", "Penalty", "Score", "Team", "Table", "Rank", "LeaderBoard"}

\* cls(payload)
MapBuild ==
    /\ mapped.state = "payload"
    /\ mapped.cls \in DictClasses
    /\ LET out == Mapper(mapped.cls, mapped.payload)
       IN  mapped' = [mapped EXCEPT !.state = IF out.raised THEN "raised" ELSE "built",
                                    !.obj = out.value]
    /\ UNCHANGED <<Cache_data, storedBy, calls, callSites, fcall, batch, scope>>

\* obj.to_dict()
MapToDict ==
    /\ mapped.state = "built"
    /\ mapped.cls \in DictClasses
    /\ mapped' = [mapped EXCEPT !.state = "serialized",
                                !.dict = to_dict(mapped.cls, mapped.obj)]
    /\ UNCHANGED <<Cache_data, storedBy, calls, callSites, fcall, batch, scope>>

\* cls(obj.to_dict())
MapAgain ==
    /\ mapped.state = "serialized"
    /\ ~mapped.dict.raised
    /\ mapped' = [mapped EXCEPT !.state = "rebuilt",
                                !.again = Mapper(mapped.cls, mapped.dict.value)]
    /\ UNCHANGED <<Cache_data, storedBy, calls, callSites, fcall, batch, scope>>

InitMappers ==
    /\ Cache_data = <<>>
    /\ storedBy = <<>>
    /\ calls = <<>>
    /\ callSites = {}
    /\ fcall = Idle
    /\ batch = Idle
    /\ scope = Idle
    /\ \E cls \in DictClasses : \E payload \in PayloadsOf(cls) :
            mapped = [state |-> "payload", cls |-> cls, payload |-> payload,
                      obj |-> None, dict |-> Return(None), again |-> Return(None)]

NextMappers ==
    \/ MapBuild
    \/ MapToDict
    \/ MapAgain

SpecMappers == InitMappers /\ [][NextMappers]_vars

-----------------------------------------------------------------------------
(* Equality of players and leaderboards: two payloads are mapped and the    *)
(* two objects compared with ==.                                            *)

\* length of a leaderboard's page of players
MaxPlayers == 2

\* player.Player.__init__ / _update, _MinimalPlayer._update included
Player(data) ==
    IF ~({"name", "id", "mkcId", "isHidden"} \subseteq DOMAIN data) THEN Raise("KeyError")
    ELSE Return(
        [cls |-> "Player", name |-> data["name"], mmr |-> Get(data, "mmr"),
         id |-> data["id"], mkc_id |-> data["mkcId"],
         discord_id |-> Get(data, "discordId"),
         country_code |-> Get(data, "countryCode"),
         switch_fc |-> Get(data, "switchFc"), is_hidden |-> data["isHidden"],
         max_mmr |-> Get(data, "maxMmr")])

\* an equality that compares every field
Player_eq_AllFields(self, value) == value = self

\* Player.__eq__: isinstance(__value, Player) and __value.id == self.id
Player_eq(self, value) == value.cls = "Player" /\ value.id = self.id

\* player.LeaderBoardPlayer.__init__ / _update, _MinimalPlayer._update included
LeaderBoardPlayer(data) ==
    IF ~({"name", "id", "winsLastTen", "lossesLastTen", "eventsPlayed"} \subseteq DOMAIN data)
    THEN Raise("KeyError")
    ELSE Return(
        [cls |-> "LeaderBoardPlayer", name |-> data["name"], mmr |-> Get(data, "mmr"),
         id |-> data["id"], wins_last_ten |-> data["winsLastTen"],
         losses_last_ten |-> data["lossesLastTen"],
         events_played |-> data["eventsPlayed"],
         overall_rank |-> Get(data, "overallRank"),
         country_code |-> Get(data, "countryCode"), max_mmr |-> Get(data, "maxMmr"),
         win_rate |-> Get(data, "winRate"),
         gain_loss_last_ten |-> Get(data, "gainLossLastTen"),
         largest_gain |-> Get(data, "largestGain"),
         largest_loss |-> Get(data, "largestLoss"), max_rank |-> Get(data, "maxRank"),
         max_mmr_rank |-> Get(data, "maxMmrRank")])

\* LeaderBoardPlayer.__eq__
LeaderBoardPlayer_eq(self, value) == value.cls = "LeaderBoardPlayer" /\ value.id = self.id

\* LeaderBoard.__init__ / _update with the players mapped field by field
LeaderBoard_update(data) ==
    IF ~({"totalPlayers", "data"} \subseteq DOMAIN data) THEN Raise("KeyError")
    ELSE LET items == data["data"].items
             players == Comprehension([i \in DOMAIN items |-> LeaderBoardPlayer(items[i])])
         IN  IF players.raised THEN players
             ELSE Return([cls |-> "LeaderBoard", total_players |-> data["totalPlayers"],
                          data |-> players.value.items])

\* an equality that compares total_players too
LeaderBoard_eq_WithTotal(self, value) ==
    /\ value.cls = "LeaderBoard"
    /\ self.total_players = value.total_players
    /\ Len(self.data) = Len(value.data)
    /\ \A i \in DOMAIN self.data : LeaderBoardPlayer_eq(self.data[i], value.data[i])

\* LeaderBoard.__eq__: isinstance(__value, LeaderBoard) and self.data == __value.data;
\* two lists are equal when they are as long and their items pairwise ==
LeaderBoard_eq(self, value) ==
    /\ value.cls = "LeaderBoard"
    /\ Len(self.data) = Len(value.data)
    /\ \A i \in DOMAIN self.data : LeaderBoardPlayer_eq(self.data[i], value.data[i])

\* left = cls(payload), right = cls(payload)
EqBuild ==
    /\ mapped.state = "payloads"
    /\ LET build(data) == IF mapped.cls = "Player" THEN Player(data)
                          ELSE LeaderBoard_update(data)
           left == build(mapped.payloads[1])
           right == build(mapped.payloads[2])
       IN  mapped' = [mapped EXCEPT
                !.state = IF left.raised \/ right.raised THEN "raised" ELSE "built",
                !.left = left.value, !.right = right.value]
    /\ UNCHANGED <<Cache_data, storedBy, calls, callSites, fcall, batch, scope>>

\* left == right
EqCompare ==
    /\ mapped.state = "built"
    /\ mapped' = [mapped EXCEPT
            !.state = "compared",
            !.out = IF mapped.cls = "Player" THEN Player_eq(mapped.left, mapped.right)
                    ELSE LeaderBoard_eq(mapped.left, mapped.right)]
    /\ UNCHANGED <<Cache_data, storedBy, calls, callSites, fcall, batch, scope>>

InitEq ==
    /\ Cache_data = <<>>
    /\ storedBy = <<>>
    /\ calls = <<>>
    /\ callSites = {}
    /\ fcall = Idle
    /\ batch = Idle
    /\ scope = Idle
    /\ LET ids == {PyInt("1"), PyInt("2")}
           optional == {<<>>, [mmr |-> PyInt("1000")], [mmr |-> None]}
           players ==
                {[name |-> name, id |-> id, mkcId |-> PyInt("7"),
                  isHidden |-> PyBool("False")] @@ opt :
                    name \in {PyStr("A"), PyStr("B")}, id \in ids, opt \in optional}
           entries ==
                {[name |-> PyStr("A"), id |-> id, winsLastTen |-> PyInt("3"),
                  lossesLastTen |-> PyInt("7"), eventsPlayed |-> PyInt("10")] @@ opt :
                    id \in ids, opt \in {<<>>, [mmr |-> PyInt("1000")]}}
           boards ==
                {[totalPlayers |-> PyInt(total), data |-> PyList(page)] :
                    total \in {"2", "50"}, page \in SeqsUpTo(entries, MaxPlayers)}
       IN  \E cls \in {"Player", "LeaderBoard"} :
           \E payloads \in IF cls = "Player" THEN players \X players ELSE boards \X boards :
                mapped = [state |-> "payloads", cls |-> cls, payloads |-> payloads,
                          left |-> None, right |-> None, out |-> FALSE]

NextEq ==
    \/ EqBuild
    \/ EqCompare

SpecEq == InitEq /\ [][NextEq]_vars

-----------------------------------------------------------------------------
(* The cached client over its lifetime: calls on one client, before and     *)
(* after close().                                                           *)

\* wrapper, key not found, after close(): session.get raises RuntimeError on a
\* closed session, no request is sent and nothing is put
CallClosed(e) ==
    /\ Len(calls) < MaxCalls
    /\ scope.state = "closed"
    /\ ~Cached(data_of(e.client), KeyAt[e.site])
    /\ ~ReqAt[e.site].short
    /\ calls' = Append(calls,
            Call(e, FALSE, 0, 0, "raised", Raise("RuntimeError"), Now + 2))
    /\ UNCHANGED <<Cache_data, storedBy, callSites, fcall, batch, scope, mapped>>

\* a close that empties the cache
CacheClose_Clearing ==
    /\ scope' = [state |-> "closed",
                 at |-> IF scope.state = "open" THEN Now ELSE scope.at]
    /\ Cache_data' = <<>>
    /\ storedBy' = <<>>
    /\ UNCHANGED <<calls, callSites, fcall, batch, mapped>>

\* AioMKClient.close: await self._http.close(); client._cache is not touched.
\* at is the time of the first close; a later close changes nothing here
CacheClose ==
    /\ scope' = [state |-> "closed",
                 at |-> IF scope.state = "open" THEN Now ELSE scope.at]
    /\ UNCHANGED <<Cache_data, storedBy, calls, callSites, fcall, batch, mapped>>

InitLife ==
    /\ Cache_data = <<>>
    /\ storedBy = <<>>
    /\ calls = <<>>
    /\ callSites \in {p \in Programs : \A e \in p : e.client = "A"}
    /\ fcall = Idle
    /\ batch = Idle
    /\ scope = [state |-> "open", at |-> 0]
    /\ mapped = Idle

\* a call that finds its key does not use the session: CallHit is the same
\* before and after close()
NextLife ==
    \/ \E e \in callSites : CallHit(e)
    \/ \E e \in callSites : CallReturnNone(e)
    \/ scope.state = "open" /\ \E e \in callSites : CallSend(e)
    \/ \E e \in callSites : CallClosed(e)
    \/ \E i \in Pending : \E resp \in Responses(ReqAt[calls[i].site]) :
            Receive(i, resp)
    \/ \E i \in Pending : ReceiveError(i)
    \/ CacheClose

SpecLife == InitLife /\ [][NextLife]_vars

-----------------------------------------------------------------------------
(* The cached client with more calls answered from the cache.               *)

\* calls answered from the cache that one behaviour makes beyond MaxCalls
MaxHits == 2

\* wrapper, key found: return client._cache.data[key]
CallCached(e) ==
    /\ Len(calls) < MaxCalls + MaxHits
    /\ Cached(data_of(e.client), KeyAt[e.site])
    /\ calls' = Append(calls,
            Call(e, TRUE, storedBy[KeyAt[e.site]], 0, "returned",
                 Return(data_of(e.client)[KeyAt[e.site]]), Now + 2))
    /\ UNCHANGED <<Cache_data, storedBy, callSites, fcall, batch, scope, mapped>>

NextStable ==
    \/ \E e \in callSites : CallCached(e)
    \/ \E e \in callSites : CallReturnNone(e)
    \/ \E e \in callSites : CallSend(e)
    \/ \E i \in Pending : \E resp \in Responses(ReqAt[calls[i].site]) :
            Receive(i, resp)
    \/ \E i \in Pending : ReceiveError(i)

SpecStable == InitCache /\ [][NextStable]_vars

-----------------------------------------------------------------------------
(* Claims about the cache *)

Returned(i) == calls[i].state = "returned"
Completed(i) == calls[i].state # "pending"
MethodOf(i) == Sites[calls[i].site].method

\* call j is made after call i has completed, and no call completes in between
NextAfter(i, j) ==
    /\ Completed(i)
    /\ calls[j].t0 > calls[i].t1
    /\ \A k \in DOMAIN calls :
            ~(Completed(k) /\ calls[i].t1 < calls[k].t1 /\ calls[k].t1 < calls[j].t0)

\* calls i and j are the same method on the same client with the same positional
\* arguments and the same keyword arguments, in any order
SameCall(i, j) ==
    /\ calls[i].client = calls[j].client
    /\ MethodOf(i) = MethodOf(j)
    /\ Sites[calls[i].site].args = Sites[calls[j].site].args
    /\ KwSet(Sites[calls[i].site]) = KwSet(Sites[calls[j].site])

\* the first of two identical calls has returned and the second, made right
\* after it, has completed
Repeated(i, j) ==
    /\ i # j
    /\ SameCall(i, j)
    /\ Returned(i)
    /\ NextAfter(i, j)
    /\ Completed(j)

\* C1 as stated: of two identical calls made one after the other on one client,
\* the second returns the stored result of the first, and the two together
\* send exactly one GET
C1_ExactlyOneGet ==
    \A i, j \in DOMAIN calls :
        Repeated(i, j) =>
            /\ calls[j].hit
            /\ calls[j].out = calls[i].out
            /\ calls[i].gets + calls[j].gets = 1

\* no call, on any client, has put a value under the key of call i between
\* the completion of call i and the start of call j
NoPutBetween(i, j) ==
    \A k \in DOMAIN calls :
        ~(/\ Returned(k)
          /\ ~calls[k].hit
          /\ KeyAt[calls[k].site] = KeyAt[calls[i].site]
          /\ calls[i].t1 < calls[k].t1
          /\ calls[k].t1 < calls[j].t0)

\* C1 as amended: of two identical calls on one client, the second made after
\* the first has returned, the second is answered from the cache and sends no
\* GET; it returns the result of the first unless another call has put a value
\* under that key in between; the two together send at most one GET, and
\* exactly one when the first call sent a request, that is when it was neither
\* answered from the cache nor ended by `return None` for want of an
\* identifying parameter
C1_SecondCallIsHit ==
    \A i, j \in DOMAIN calls :
        (/\ i # j
         /\ SameCall(i, j)
         /\ Returned(i)
         /\ calls[j].t0 > calls[i].t1) =>
            /\ calls[j].hit
            /\ calls[j].gets = 0
            /\ NoPutBetween(i, j) => calls[j].out = calls[i].out
            /\ calls[i].gets + calls[j].gets <= 1
            /\ (calls[i].gets + calls[j].gets = 1) <=>
                    (~calls[i].hit /\ ~ReqAt[calls[i].site].short)

\* two calls that write the same keyword arguments in a different order: the
\* first sent its GET, the second was answered from the cache
C1_Witness ==
    \E i, j \in DOMAIN calls :
        /\ Repeated(i, j)
        /\ Sites[calls[i].site].kwargs # Sites[calls[j].site].kwargs
        /\ calls[i].gets = 1
        /\ calls[j].hit

\* C2: a call answered from the cache is answered with a value that a call of
\* the same method stored, never with a value stored by another method
C2_NoCrossMethodHit ==
    \A j \in DOMAIN calls :
        calls[j].hit =>
            /\ calls[j].from \in DOMAIN calls
            /\ MethodOf(calls[j].from) = MethodOf(j)

\* two methods called with the same arguments, the second after the first has
\* returned and stored its result: the second sends its own GET
C2_Witness ==
    \E i, j \in DOMAIN calls :
        /\ MethodOf(i) # MethodOf(j)
        /\ Sites[calls[i].site].args = Sites[calls[j].site].args
        /\ KwSet(Sites[calls[i].site]) = KwSet(Sites[calls[j].site])
        /\ Returned(i)
        /\ ~calls[i].hit
        /\ calls[j].t0 > calls[i].t1
        /\ ~calls[j].hit
        /\ calls[j].gets = 1

\* absence: None of a single-entity method, [] of a list method
Absence(x) == x = None \/ x = PyList(<<>>)

\* C3: a call that returns absence leaves it stored under its key; every
\* later call with that key is answered from the cache and sends no GET, and
\* it returns absence again, no other call having put a value under that key
\* in between
C3_NegativeCaching ==
    \A i \in DOMAIN calls :
        (Returned(i) /\ Absence(calls[i].out.value)) =>
            /\ Cached(Cache_data, KeyAt[calls[i].site])
            /\ storedBy[KeyAt[calls[i].site]] = (IF calls[i].hit THEN calls[i].from ELSE i) =>
                    Cache_data[KeyAt[calls[i].site]] = calls[i].out.value
            /\ \A j \in DOMAIN calls :
                    (/\ j # i
                     /\ KeyAt[calls[j].site] = KeyAt[calls[i].site]
                     /\ calls[j].t0 > calls[i].t1) =>
                        /\ calls[j].hit
                        /\ calls[j].gets = 0
                        /\ NoPutBetween(i, j) => calls[j].out = calls[i].out

\* the server answered the first call with a status other than 200, or with
\* an empty array; the second call got the absence from the cache
C3_Witness ==
    \E i, j \in DOMAIN calls :
        /\ Returned(i)
        /\ calls[i].gets = 1
        /\ Absence(calls[i].out.value)
        /\ KeyAt[calls[j].site] = KeyAt[calls[i].site]
        /\ NextAfter(i, j)
        /\ calls[j].hit
        /\ Absence(calls[j].out.value)

\* C4: a call on one client is never answered from an entry that a call on
\* another client stored
C4_CachePerClient ==
    \A j \in DOMAIN calls :
        calls[j].hit => calls[calls[j].from].client = calls[j].client

-----------------------------------------------------------------------------
(* Claims about the plain client *)

\* the identifying parameters in the order of precedence, and their query keys
Identifying(m) ==
    IF m = "get_player" THEN <<"id", "name", "mkc_id", "discord_id", "fc">>
    ELSE <<"id", "name">>
QueryKey(p) ==
    CASE p = "mkc_id" -> "mkcId"
      [] p = "discord_id" -> "discordId"
      [] OTHER -> p
Given(m, a) == {i \in DOMAIN Identifying(m) : a[Identifying(m)[i]] # None}
First(S) == CHOOSE i \in S : \A j \in S : i <= j

FacadeDone == fcall.state \in {"returned", "raised"}

\* C5: get_player and get_player_details called with every identifying
\* parameter None return None and send no GET, whatever season is
C5_NoIdentifierNoRequest ==
    (/\ fcall.state # "idle"
     /\ fcall.method \in {"get_player", "get_player_details"}
     /\ Given(fcall.method, fcall.a) = {}) =>
        /\ fcall.gets = 0
        /\ fcall.state \in {"called", "returned"}
        /\ fcall.state = "returned" => fcall.out = Return(None)

\* a lookup with a season and no identifying parameter has returned
C5_Witness ==
    /\ fcall.state = "returned"
    /\ fcall.method = "get_player_details"
    /\ Given(fcall.method, fcall.a) = {}
    /\ fcall.a.season # None
    /\ fcall.out = Return(None)
    /\ fcall.gets = 0

\* C6: the query get_player sends holds exactly one identifying key, that of
\* the first parameter that is not None in the order id, name, mkc_id,
\* discord_id, fc, and season if and only if season is not None
C6_Precedence ==
    (/\ fcall.state \in {"pending", "returned", "raised"}
     /\ fcall.method = "get_player"
     /\ Given("get_player", fcall.a) # {}) =>
        LET p == Identifying("get_player")[First(Given("get_player", fcall.a))]
        IN  /\ fcall.gets = 1
            /\ fcall.req.endpoint = "player"
            /\ fcall.req.params =
                    {<<QueryKey(p), fcall.a[p]>>}
                        \cup (IF fcall.a.season # None
                              THEN {<<"season", fcall.a.season>>} ELSE {})

\* id is 0, which is not None, and a name is given too: the query holds id
C6_Witness ==
    /\ fcall.state = "pending"
    /\ fcall.method = "get_player"
    /\ fcall.a.id = PyInt("0")
    /\ fcall.a.name = PyStr("A")
    /\ fcall.a.fc = PyStr("A")
    /\ fcall.a.season # None
    /\ Keys(fcall.req.params) = {"id", "season"}

\* C7: a call of HttpClient.get sends one GET; with status 200 it returns the
\* decoded body, with any other status it returns None and does not raise
C7_StatusMapping ==
    (fcall.state \in {"returned", "raised"} /\ fcall.status # 0) =>
        /\ fcall.gets = 1
        /\ fcall.status = 200 => fcall.data = fcall.body
        /\ fcall.status # 200 =>
                /\ fcall.data = None
                /\ fcall.state = "returned"

\* the server answered 204: a success that is not 200
C7_Witness ==
    /\ fcall.state = "returned"
    /\ fcall.status = 204
    /\ fcall.body # None
    /\ fcall.data = None

\* C8: a list method that does not fail returns a list, the empty one when
\* the transport reports absence or the server's array is empty, never None
C8_ListNeverNone ==
    (/\ fcall.state = "returned"
     /\ fcall.method \in
            {"get_player_list", "get_tables", "get_table_unverified",
             "get_bonuses", "get_penalties"}) =>
        /\ fcall.out.value.cls = "list"
        /\ fcall.out.value # None
        /\ fcall.data = None => fcall.out.value = PyList(<<>>)
        /\ (fcall.data # None /\ fcall.method # "get_player_list"
                /\ fcall.data = PyList(<<>>)) => fcall.out.value = PyList(<<>>)
        /\ (fcall.data # None /\ fcall.method = "get_player_list"
                /\ fcall.data.players = PyList(<<>>)) => fcall.out.value = PyList(<<>>)

\* the server answered get_bonuses with 404 and the method returned []
C8_Witness ==
    /\ fcall.state = "returned"
    /\ fcall.method = "get_bonuses"
    /\ fcall.status = 404
    /\ fcall.out = Return(PyList(<<>>))

\* the class each single-entity method is declared to return
ResultClass(m) ==
    CASE m = "get_player" -> "Player"
      [] m = "get_player_details" -> "PlayerDetails"
      [] m = "get_table" -> "Table"
      [] m = "get_bonus" -> "Bonus"
      [] m = "get_penalty" -> "Penalty"

\* C9: a single-entity method returns None and does not raise when the
\* transport reports absence; when the transport returns a body that has the
\* keys the mapper reads, it returns an object of its own class, and whatever
\* it returns for a body is of that class
C9_NoneOrOwnClass ==
    (/\ FacadeDone
     /\ fcall.status # 0
     /\ fcall.method \in
            {"get_player", "get_player_details", "get_table", "get_bonus",
             "get_penalty"}) =>
        /\ fcall.data = None => fcall.out = Return(None)
        /\ (fcall.data # None /\ fcall.state = "returned") =>
                fcall.out.value.cls = ResultClass(fcall.method)
        /\ (fcall.data # None /\ Required(ResultClass(fcall.method)) \subseteq fcall.data.keys)
                => (fcall.state = "returned" /\ fcall.out.value.id = fcall.data.id)

\* get_player_details got a body and returned a PlayerDetails
C9_Witness ==
    /\ fcall.state = "returned"
    /\ fcall.method = "get_player_details"
    /\ fcall.data # None
    /\ fcall.out.value.cls = "PlayerDetails"

-----------------------------------------------------------------------------
(* Claims about the batch lookup *)

\* what slot i must hold: the Player built from the answer to request i, or
\* None when that answer was absence
SlotOf(leg) ==
    IF leg.result = None THEN None ELSE [cls |-> "Player", id |-> leg.result.id]

\* C10: get_players returns one slot per request, in the order of the
\* requests; slot i holds the Player built from the answer to request i, or
\* None when request i was answered with absence, in whatever order the
\* requests completed
C10_BatchOrder ==
    batch.state = "returned" =>
        /\ batch.out.value.cls = "list"
        /\ Len(batch.out.value.items) = Len(batch.params_list)
        /\ \A i \in DOMAIN batch.params_list :
                /\ batch.params_list[i] = PlayersParams(batch.in, i)
                /\ batch.out.value.items[i] = SlotOf(batch.legs[i])

\* names A and B: the request for B completed first and was answered with
\* absence, then the request for A got a player; the result is [Player, None]
C10_Witness ==
    /\ batch.state = "returned"
    /\ batch.in.names = <<PyStr("A"), PyStr("B")>>
    /\ batch.in.ids = <<>>
    /\ batch.order = <<2, 1>>
    /\ batch.out.value.items[1] # None
    /\ batch.out.value.items[2] = None

Failed == {i \in DOMAIN batch.legs : batch.legs[i].state = "failed"}
Running == {i \in DOMAIN batch.legs : batch.legs[i].state = "running"}
BatchDone == batch.state \in {"returned", "raised"}

\* C11: with return_exceptions the batch does not raise when the transport
\* fails for a slot: it returns the list of full length, the failed slot
\* holding the captured exception and every other slot its normal result
C11_FailureCaptured ==
    (BatchDone /\ batch.in.return_exceptions /\ Failed # {}) =>
        /\ batch.state = "returned"
        /\ Len(batch.out.value.items) = Len(batch.params_list)
        /\ \A i \in DOMAIN batch.legs :
                batch.out.value.items[i] =
                    IF i \in Failed THEN batch.legs[i].result ELSE SlotOf(batch.legs[i])

\* C12: without return_exceptions a transport failure in one slot makes the
\* batch raise that failure and return no list, whatever the other slots got
C12_FailureAborts ==
    (batch.state # "called" /\ ~batch.in.return_exceptions /\ Failed # {}) =>
        /\ batch.state = "raised"
        /\ batch.out = Raise("ClientError")

\* the transport failed for the second of two slots after the first had got
\* its player, and the batch raised
C12_Witness ==
    /\ batch.state = "raised"
    /\ ~batch.in.return_exceptions
    /\ Len(batch.legs) = 2
    /\ batch.legs[1].state = "done"
    /\ batch.legs[1].result # None
    /\ Required("Player") \subseteq batch.legs[1].result.keys
    /\ batch.legs[2].state = "failed"
    /\ batch.out = Raise("ClientError")

\* C13: when the batch returns or raises to its caller, none of its requests
\* is still outstanding
C13_NoLegOutstanding ==
    BatchDone => Running = {}

-----------------------------------------------------------------------------
(* Claims about closing *)

\* the calls of AioMKClient.close made so far, that of __aexit__ included
CloseCalls == scope.closes + (IF scope.state = "exited" THEN 1 ELSE 0)

-----------------------------------------------------------------------------
(* Claims about Search *)

\* a field counts as set when it holds a value that is not None, not 0 and
\* not the empty string
IsSet(x) == x # None /\ x # PyInt("0") /\ x # PyStr("")

\* C16 as stated, a field being set when it is not None: the query is
\* "mkc=<mkc_id>" when an mkc id is set, else "discord=<discord_id>" when a
\* discord id is set, else "switch=<switch_fc>"
C16_QueryOfGiven ==
    (mapped.state = "built" /\ mapped.query # None) =>
        mapped.query =
            IF mapped.obj.mkc_id # None
            THEN PyStr("mkc=" \o Format(mapped.obj.mkc_id))
            ELSE IF mapped.obj.discord_id # None
                 THEN PyStr("discord=" \o Format(mapped.obj.discord_id))
                 ELSE PyStr("switch=" \o Format(mapped.obj.switch_fc))

\* C16 as amended, a field being set when it is not None, not 0 and not "":
\* the query is "mkc=<mkc_id>" when an mkc id is set, else
\* "discord=<discord_id>" when a discord id is set, else "switch=<switch_fc>",
\* which is "switch=None" when there is no friend code
C16_QueryOfSet ==
    (mapped.state = "built" /\ mapped.query # None) =>
        mapped.query =
            IF IsSet(mapped.obj.mkc_id)
            THEN PyStr("mkc=" \o Format(mapped.obj.mkc_id))
            ELSE IF IsSet(mapped.obj.discord_id)
                 THEN PyStr("discord=" \o Format(mapped.obj.discord_id))
                 ELSE PyStr("switch=" \o Format(mapped.obj.switch_fc))

\* a Search with an mkc id and a friend code gives the mkc form only
C16_Witness ==
    /\ mapped.state = "built"
    /\ mapped.obj = Search(PyInt("5"), None, PyStr("F"))
    /\ mapped.query = PyStr("mkc=5")

-----------------------------------------------------------------------------
(* Claims about Rank *)

HasSpace(nick) == \E i \in DOMAIN nick : nick[i] = " "
\* nick is prefix + " " + rest and the prefix holds no space
SplitsAs(nick, prefix, rest) ==
    /\ nick = prefix \o <<" ">> \o rest
    /\ \A i \in DOMAIN prefix : prefix[i] # " "

\* C17: from_nick splits the nickname on its first space.  With a space,
\* division is the prefix and level the remainder parsed as an integer (and
\* there is no Rank, but a ValueError, when the remainder is no integer);
\* without a space, division is the whole nickname and level is None; name is
\* always the whole nickname
C17_FromNick ==
    (mapped.state \in {"returned", "raised"}) =>
        LET nick == mapped.nick
            r == mapped.out.value
        IN  /\ mapped.state = "returned" => r.name = nick
            /\ ~HasSpace(nick) =>
                    /\ mapped.state = "returned"
                    /\ r.division = nick
                    /\ r.level = None
            /\ HasSpace(nick) =>
                    \E k \in DOMAIN nick :
                        LET prefix == SubSeq(nick, 1, k - 1)
                            rest == SubSeq(nick, k + 1, Len(nick))
                        IN  /\ SplitsAs(nick, prefix, rest)
                            /\ mapped.state = "returned" =>
                                    /\ r.division = prefix
                                    /\ r.level.cls = "int"
                                    /\ int(rest) = Return(r.level)
                            /\ mapped.state = "raised" =>
                                    /\ mapped.out = Raise("ValueError")
                                    /\ int(rest).raised
                            /\ (rest # <<>> /\ \A i \in DOMAIN rest : rest[i] \in Digits) =>
                                    /\ mapped.state = "returned"
                                    /\ r.level.n = DecimalValue(rest)

\* "D 03" gives division "D" and level 3
C17_Witness ==
    /\ mapped.state = "returned"
    /\ mapped.nick = <<"D", " ", "0", "3">>
    /\ mapped.out.value.division = <<"D">>
    /\ mapped.out.value.level = PyIntVal(3)
    /\ mapped.out.value.name = mapped.nick

-----------------------------------------------------------------------------
(* Claims about LeaderBoard *)

Sliced == mapped.state = "done" /\ mapped.op.name = "getitem" /\ mapped.op.index.cls = "slice"

\* the entries start, start + 1, ... below stop that the source has, counted
\* from 0
Selected(items, start, stop) ==
    [k \in 1..(IF Min(stop, Len(items)) > start THEN Min(stop, Len(items)) - start ELSE 0)
        |-> items[start + k]]

\* C18: a slice of a LeaderBoard is a LeaderBoard whose total_players is the
\* number of selected entries and whose entries are the selected entries of
\* the source, in the same order
C18_SliceIsBoard ==
    Sliced =>
        LET sel == Selected(mapped.board.data, mapped.op.index.start, mapped.op.index.stop)
        IN  /\ ~mapped.out.raised
            /\ mapped.out.value.cls = "LeaderBoard"
            /\ mapped.out.value.total_players = PyIntVal(Len(sel))
            /\ mapped.out.value.data = sel

\* C19: every LeaderBoard, built from a payload, by slicing or by find_all,
\* has total_players equal to the number of entries it holds
C19_TotalIsLength ==
    /\ mapped.state \in {"built", "done"} =>
            mapped.board.total_players = PyIntVal(Len(mapped.board.data))
    /\ (/\ mapped.state = "done"
        /\ ~mapped.out.raised
        /\ mapped.out.value.cls = "LeaderBoard") =>
            mapped.out.value.total_players = PyIntVal(Len(mapped.out.value.data))

-----------------------------------------------------------------------------
(* Claims about the mappers *)

\* C20: for Bonus, Penalty, Score, Team, Table, Rank and LeaderBoard,
\* to_dict gives a dict with the wire keys the record was built from, and
\* building the class again from that dict succeeds and gives a record equal
\* to the original, field for field
C20_RoundTrip ==
    /\ mapped.state \in {"serialized", "rebuilt"} =>
            /\ ~mapped.dict.raised
            /\ DOMAIN mapped.payload \subseteq DOMAIN mapped.dict.value
    /\ mapped.state = "rebuilt" => mapped.again = Return(mapped.obj)

-----------------------------------------------------------------------------
(* Claims about equality *)

\* the fields of a mapped object other than its id
Others(obj) == [a \in DOMAIN obj \ {"id"} |-> obj[a]]

\* C21: two Player records compare equal when their ids are equal, whatever
\* their other fields are, and unequal when their ids differ, also when all
\* their other fields are the same
C21_PlayerEqById ==
    (mapped.state = "compared" /\ mapped.cls = "Player") =>
        (mapped.out <=> mapped.left.id = mapped.right.id)

\* two players with one id and different mmr and name have compared equal
C21_Witness ==
    /\ mapped.state = "compared"
    /\ mapped.cls = "Player"
    /\ mapped.left.id = mapped.right.id
    /\ mapped.left.mmr # mapped.right.mmr
    /\ mapped.left.name # mapped.right.name
    /\ mapped.out

\* C23: two LeaderBoards compare equal exactly when their player sequences are
\* as long and have pairwise equal ids in the same order, whatever
\* total_players and the players' other fields are; two boards built from one
\* payload compare equal
C23_BoardEqByIds ==
    (mapped.state = "compared" /\ mapped.cls = "LeaderBoard") =>
        /\ mapped.out <=>
                /\ Len(mapped.left.data) = Len(mapped.right.data)
                /\ \A i \in DOMAIN mapped.left.data :
                        mapped.left.data[i].id = mapped.right.data[i].id
        /\ mapped.payloads[1] = mapped.payloads[2] => mapped.out

\* two boards of two players with the same ids, another total_players and
\* other fields in a player, have compared equal
C23_Witness ==
    /\ mapped.state = "compared"
    /\ mapped.cls = "LeaderBoard"
    /\ mapped.out
    /\ Len(mapped.left.data) = 2
    /\ mapped.left.data[1].id # mapped.left.data[2].id
    /\ mapped.left.total_players # mapped.right.total_players
    /\ Others(mapped.left.data[1]) # Others(mapped.right.data[1])


\* the optional timestamps of a mapper: wire key and attribute
Timestamps(cls) ==
    IF cls = "Table" THEN {<<"verifiedOn", "verified_on">>, <<"deletedOn", "deleted_on">>}
    ELSE IF cls \in {"Bonus", "Penalty"} THEN {<<"deletedOn", "deleted_on">>}
    ELSE {}

\* the payload has a null or no value under the key
Missing(data, key) == key \notin DOMAIN data \/ data[key] = None

\* C22: a payload of Table, Bonus or Penalty whose optional timestamp key is
\* null or absent is built, with None in that field; a timestamp that is
\* present is ISO-8601 parsed
C22_OptionalTimestamps ==
    (mapped.state \in {"built", "raised"} /\ Timestamps(mapped.cls) # {}) =>
        \A t \in Timestamps(mapped.cls) :
            IF Missing(mapped.payload, t[1])
            THEN mapped.state = "built" /\ mapped.obj[t[2]] = None
            ELSE mapped.state = "built" => mapped.obj[t[2]] = isoparse(mapped.payload[t[1]])


-----------------------------------------------------------------------------
(* Claims about the cache under overlapping calls, failures and close *)

\* call j starts while call i, started before it, has not completed
Overlapping(i, j) ==
    /\ i < j
    /\ ~Completed(i) \/ calls[j].t0 < calls[i].t1

\* call i has put its result in the cache
Wrote(i) == Returned(i) /\ ~calls[i].hit

\* C24: of two overlapping calls of one method with the same arguments on one
\* client, only one writes the cache entry of their key and only one sends a GET
C24_OverlapOneGet ==
    \A i, j \in DOMAIN calls :
        (SameCall(i, j) /\ Overlapping(i, j)) =>
            /\ calls[i].gets + calls[j].gets <= 1
            /\ ~(Wrote(i) /\ Wrote(j))


\* call j starts after close() and a call has put a value under its key before
AfterCloseCached(j) ==
    /\ scope.state = "closed"
    /\ calls[j].t0 > scope.at
    /\ \E i \in DOMAIN calls :
            Wrote(i) /\ KeyAt[calls[i].site] = KeyAt[calls[j].site] /\ calls[i].t1 < calls[j].t0

\* C25: no step removes a key from the cache, close() leaves the cache as it
\* is, and a call made after close() with a key that is in the cache returns
\* the stored value and sends no GET
C25_NeverEvicts ==
    /\ [][/\ DOMAIN Cache_data \subseteq DOMAIN Cache_data'
          /\ scope' # scope => Cache_data' = Cache_data]_vars
    /\ [](\A j \in DOMAIN calls :
            AfterCloseCached(j) =>
                /\ calls[j].hit
                /\ calls[j].gets = 0
                /\ Returned(j)
                /\ calls[j].out = calls[calls[j].from].out)

\* a call stored a value, the client was closed, and a call made after that
\* was answered from the cache
C25_Witness ==
    \E j \in DOMAIN calls :
        /\ AfterCloseCached(j)
        /\ calls[j].hit
        /\ calls[calls[j].from].t1 <= scope.at
        /\ Cache_data[KeyAt[calls[j].site]] = calls[j].out.value

\* C28: once a call has returned a value from the cache, every later call with
\* that key on that client returns this value
C28_StableValue ==
    \A i, j \in DOMAIN calls :
        (/\ calls[i].hit
         /\ calls[j].client = calls[i].client
         /\ KeyAt[calls[j].site] = KeyAt[calls[i].site]
         /\ calls[j].t0 > calls[i].t1
         /\ Completed(j)) =>
            calls[j].out = calls[i].out


-----------------------------------------------------------------------------
(* Claims about the parameters of get_leaderboard *)

\* the optional filters of get_leaderboard: query key and argument
Filters ==
    {<<"country", "country">>, <<"minMmr", "min_mmr">>, <<"maxMmr", "max_mmr">>,
     <<"minEventsPlayed", "min_events_played">>,
     <<"maxEventsPlayed", "max_events_played">>}

\* bool(search) for None, a str or a Search: a Search is true when one of its
\* fields is
SearchTruthy(x) ==
    IF x.cls = "Search" THEN IsSet(x.mkc_id) \/ IsSet(x.discord_id) \/ IsSet(x.switch_fc)
    ELSE IsSet(x)

\* C26: get_leaderboard sends season, skip and pageSize in every call, skip
\* and pageSize being 0 and 50 by default; it sends each optional filter
\* exactly when its argument is not None, and the search key exactly when the
\* search argument is truthy, so never "switch=None" for a Search without a
\* field
C26_LeaderboardParams ==
    (fcall.state # "idle" /\ fcall.method = "get_leaderboard") =>
        LET a == fcall.a
            params == fcall.req.params
        IN  /\ ~fcall.req.short
            /\ {<<"season", a.season>>, <<"skip", a.skip>>, <<"pageSize", a.page_size>>}
                    \subseteq params
            /\ Default("get_leaderboard", "skip") = PyInt("0")
            /\ Default("get_leaderboard", "page_size") = PyInt("50")
            /\ \A f \in Filters :
                    /\ f[1] \in Keys(params) <=> a[f[2]] # None
                    /\ a[f[2]] # None => <<f[1], a[f[2]]>> \in params
            /\ "search" \in Keys(params) <=> SearchTruthy(a.search)
            /\ <<"search", PyStr("switch=None")>> \notin params
            /\ a.search.cls = "str" /\ SearchTruthy(a.search) =>
                    <<"search", a.search>> \in params
            /\ Keys(params) \subseteq
                    {"season", "skip", "pageSize", "search"} \cup {f[1] : f \in Filters}

\* get_leaderboard was called with skip 0, a Search without a field and one
\* filter: the GET was sent without a search key and with that filter
C26_Witness ==
    /\ fcall.state = "pending"
    /\ fcall.method = "get_leaderboard"
    /\ fcall.a.search = Search(None, None, None)
    /\ fcall.a.skip = PyInt("0")
    /\ fcall.a.min_mmr # None
    /\ fcall.a.country = None
    /\ Keys(fcall.req.params) = {"season", "skip", "pageSize", "minMmr"}


-----------------------------------------------------------------------------
(* Claims about failed calls and about the cache key *)

\* calls i and j look up the same key in the cache of the same client
SameKey(i, j) ==
    /\ calls[i].client = calls[j].client
    /\ KeyAt[calls[i].site] = KeyAt[calls[j].site]

\* call j is the first call with the key of call i that starts after call i
\* has completed
NextWithKey(i, j) ==
    /\ Completed(i)
    /\ SameKey(i, j)
    /\ calls[j].t0 > calls[i].t1
    /\ \A k \in DOMAIN calls :
            SameKey(i, k) => ~(calls[i].t1 < calls[k].t0 /\ calls[k].t0 < calls[j].t0)

-----------------------------------------------------------------------------
(* Claims about the pairing of the inputs of get_players                   *)

\* the identifiers given to get_players, in the order the code tests them
Identifiers(in) ==
    <<<<"id", in.ids>>, <<"name", in.names>>, <<"mkcId", in.mkc_ids>>,
      <<"discordId", in.discord_ids>>, <<"fc", in.fcs>>>>

\* the length of the longest input sequence
Longest(in) ==
    LET lens == {Len(Identifiers(in)[k][2]) : k \in 1..5}
    IN  CHOOSE n \in lens : \A m \in lens : m <= n

\* the identifiers given at position i: the input sequences that reach it
GivenAt(in, i) == {k \in 1..5 : i <= Len(Identifiers(in)[k][2])}

\* C29: get_players pairs its input sequences position by position: it sends
\* as many GETs as the longest input sequence is long, the list it returns
\* has that length (no GET and an empty list when every sequence is empty),
\* and the request of a position carries only the first identifier given
\* there in the order id, name, mkc_id, discord_id, fc
C29_PairsByPosition ==
    LET in == batch.in
        ids == Identifiers(in)
    IN  /\ Len(batch.params_list) = Longest(in)
        /\ batch.state # "called" => Len(batch.legs) = Longest(in)
        /\ batch.state = "returned" =>
                /\ batch.out.value.cls = "list"
                /\ Len(batch.out.value.items) = Longest(in)
        /\ \A i \in 1..Longest(in) :
                LET first == CHOOSE k \in GivenAt(in, i) : \A j \in GivenAt(in, i) : k <= j
                IN  {p \in batch.params_list[i] : p[1] # "season"} =
                        {<<ids[first][1], ids[first][2][i]>>}

\* get_players returned two slots for two names where an id and a friend
\* code were given for the first position only
C29_Witness ==
    /\ batch.state = "returned"
    /\ Len(batch.in.ids) = 1
    /\ Len(batch.in.names) = 2
    /\ Len(batch.in.fcs) = 1
    /\ Len(batch.legs) = 2
    /\ Len(batch.out.value.items) = 2
    /\ Keys(batch.params_list[1]) \ {"season"} = {"id"}
    /\ Keys(batch.params_list[2]) \ {"season"} = {"name"}

\* get_players returned the empty list without a request for empty inputs
C29_WitnessEmpty ==
    /\ batch.state = "returned"
    /\ Longest(batch.in) = 0
    /\ batch.legs = <<>>
    /\ batch.out = Return(PyList(<<>>))

-----------------------------------------------------------------------------
(* Claims about positional and keyword passing                             *)

\* for each argument list, the values it binds to the parameters
BoundAt == [k \in SiteIds |-> Bind(Sites[k].method, Sites[k].args, Sites[k].kwargs)]

\* calls i and j are the same method with the same values bound to its
\* parameters, one passing positionally what the other passes by keyword
PassedDifferently(i, j) ==
    /\ MethodOf(i) = MethodOf(j)
    /\ Sites[calls[i].site].args # Sites[calls[j].site].args
    /\ BoundAt[calls[i].site] = BoundAt[calls[j].site]

\* C30: a call that passes a value positionally and a call that passes the
\* same value by keyword have different cache keys, and neither is answered
\* with what the other stored; made one after the other on a fresh cache,
\* each of the two sends one GET
C30_PositionalKeywordApart ==
    \A i, j \in DOMAIN calls :
        PassedDifferently(i, j) =>
            /\ KeyAt[calls[i].site] # KeyAt[calls[j].site]
            /\ calls[j].hit => calls[j].from # i
            /\ (i = 1 /\ j = 2 /\ Completed(i) /\ calls[j].t0 > calls[i].t1) =>
                    /\ ~calls[i].hit /\ calls[i].gets = 1
                    /\ ~calls[j].hit /\ calls[j].gets = 1

\* get_bonus(1) has returned and stored its bonus, and get_bonus(id=1), made
\* after it on the same client, has sent its own GET
C30_Witness ==
    /\ Len(calls) = 2
    /\ PassedDifferently(1, 2)
    /\ calls[1].client = calls[2].client
    /\ MethodOf(1) = "get_bonus"
    /\ Sites[calls[1].site].args = <<PyInt("1")>>
    /\ Sites[calls[2].site].kwargs = <<<<"id", PyInt("1")>>>>
    /\ Returned(1)
    /\ KeyAt[calls[1].site] \in DOMAIN Cache_data
    /\ calls[2].t0 > calls[1].t1
    /\ ~calls[2].hit
    /\ calls[2].gets = 1

====
